---------------------------- MODULE Spec2Model ----------------------------
(***************************************************************************)
(* Model of the lead-qualification agent (tkbrannon/adleadagent):          *)
(*   - the qualification decision engine  (app/tasks.py)                   *)
(*   - the TwiML voice flow and its webhooks (app/services/twilio_service, *)
(*     app/main.py)                                                        *)
(*   - the Redis call-state / dedup store (app/services/redis_client.py)   *)
(*   - the Celery pipeline: process_lead, finalize_lead_record,            *)
(*     send_followup_sms (app/tasks.py) and the Gmail poller (poller.py)   *)
(*                                                                         *)
(* Text is modelled as a sequence of one-character strings, so that        *)
(* lower-casing, substring matching, joining and number formatting are     *)
(* computed the way the Python code computes them.                         *)
(***************************************************************************)
EXTENDS Integers, Sequences, FiniteSets, Bags, TLC

VARIABLES
    \* ---- decision-engine harness (inputs and result of one evaluation)
    d_pc, d_answers, d_status, d_result,
    \* ---- Redis
    callData,        \* call_data:{sid}   hash: field name -> text  (<<>> domain = no key)
    callTTL,         \* whether call_data:{sid} carries an expiry
    processedEmail,  \* processed_email:{id} markers that exist
    leadTimestamp,   \* lead_timestamp:{phone} values
    \* ---- Gmail mailbox
    unseen,          \* message ids still UNSEEN
    \* ---- Celery queues (bags of task arguments)
    intakeQ, finalizeQ, smsQ,
    \* ---- external collaborators
    twilioCalls,     \* call sids the telephony provider has handed out
    airtable,        \* records created in the CRM, in creation order
    smsOut,          \* bag of messages handed to the messaging provider
    activity,        \* bag of AgentActivity rows (audit sink)
    \* ---- the provider's side of one voice call, per call sid
    flow,
    \* ---- history (observations used by the properties)
    prompts,         \* per call, per question: Gather prompts played
    empties,         \* per call: consecutive empty captures on the current question
    enqueuedFor,     \* per message id: process_lead.delay calls made by the poller
    markerExpired,   \* per message id: times its dedup marker has aged out
    stateExpired,    \* call sids whose call state has aged out
    lastPoll,        \* the poller's most recent pass over one message
    verdictsFor,     \* per call sid: verdicts the decision engine produced
    followupsFor,    \* per call sid: follow-up tasks enqueued
    lastTask,        \* outcome of the most recent pipeline task execution
    posts,           \* direct webhook posts made so far
    lastHook,        \* the most recent direct webhook post and its response
    \* ---- work that has started and not finished: answer requests accepted by
    \* the gateway (before and after their write), an intake task between placing
    \* its call and storing the call state, a poller pass between its dedup check
    \* and its mark
    inflight

vars == << d_pc, d_answers, d_status, d_result,
           callData, callTTL, processedEmail, leadTimestamp, unseen,
           intakeQ, finalizeQ, smsQ, twilioCalls, airtable, smsOut, activity,
           flow, prompts, empties, enqueuedFor, markerExpired, stateExpired, lastPoll,
           verdictsFor, followupsFor, lastTask, posts, lastHook, inflight >>

decideVars == << d_pc, d_answers, d_status, d_result >>
pollVars   == << processedEmail, unseen, enqueuedFor, markerExpired, lastPoll >>
voiceVars  == << flow, prompts, empties, inflight >>
queueVars  == << intakeQ, finalizeQ, smsQ >>
outVars    == << twilioCalls, airtable, smsOut, activity >>
histVars   == << verdictsFor, followupsFor, lastTask >>

-----------------------------------------------------------------------------
(* Text helpers                                                            *)

Upper == <<"A","B","C","D","E","F","G","H","I","J","K","L","M",
           "N","O","P","Q","R","S","T","U","V","W","X","Y","Z">>
LowerCase == <<"a","b","c","d","e","f","g","h","i","j","k","l","m",
           "n","o","p","q","r","s","t","u","v","w","x","y","z">>

\* str.lower() on one character
LowerChar(ch) ==
    IF \E i \in 1..Len(Upper) : Upper[i] = ch
    THEN LowerCase[CHOOSE i \in 1..Len(Upper) : Upper[i] = ch]
    ELSE ch

\* str.lower()
Lower(s) == [i \in 1..Len(s) |-> LowerChar(s[i])]

\* Python's  `word in text`
Contains(text, word) ==
    \E i \in 0..(Len(text) - Len(word)) :
        SubSeq(text, i + 1, i + Len(word)) = word

\* any(word in text for word in words)
AnyIn(text, words) == \E k \in 1..Len(words) : Contains(text, words[k])

StartsWith(text, prefix) ==
    /\ Len(prefix) <= Len(text)
    /\ SubSeq(text, 1, Len(prefix)) = prefix

\* sep.join(parts)
RECURSIVE Join(_, _)
Join(parts, sep) ==
    IF parts = << >> THEN << >>
    ELSE IF Len(parts) = 1 THEN parts[1]
    ELSE parts[1] \o sep \o Join(Tail(parts), sep)

DigitChars == <<"0","1","2","3","4","5","6","7","8","9">>

\* str(n) for a natural number
RECURSIVE NatStr(_)
NatStr(n) ==
    IF n < 10 THEN << DigitChars[n + 1] >>
    ELSE NatStr(n \div 10) \o << DigitChars[(n % 10) + 1] >>

IsDigit(ch) == \E i \in 1..10 : DigitChars[i] = ch
DigitVal(ch) == (CHOOSE i \in 1..10 : DigitChars[i] = ch) - 1

\* int(text) for a non-empty run of digits
RECURSIVE ParseNat(_)
ParseNat(s) ==
    IF Len(s) = 1 THEN DigitVal(s[1])
    ELSE 10 * ParseNat(SubSeq(s, 1, Len(s) - 1)) + DigitVal(s[Len(s)])

AllDigits(s) == Len(s) > 0 /\ \A i \in 1..Len(s) : IsDigit(s[i])

-----------------------------------------------------------------------------
(* Qualification decision engine: app/tasks.py _determine_qualification    *)

QUALIFIED   == "qualified"
UNQUALIFIED == "unqualified"
NO_ANSWER   == "no_answer"
CALL_FAILED == "call_failed"
PENDING     == "pending"
LeadQualification == {QUALIFIED, UNQUALIFIED, NO_ANSWER, CALL_FAILED, PENDING}

Qs == {"q1", "q2", "q3", "q4", "q5"}

\* lines 292-307: the keywords tested per question
KW_Q ==
    [ q1 |->
    << <<"0">>,
       <<"z", "e", "r", "o">>,
       <<"n", "e", "w">>,
       <<"j", "u", "s", "t", " ", "s", "t", "a", "r", "t", "e", "d">>,
       <<"s", "t", "a", "r", "t", "i", "n", "g">> >>,
      q2 |->
    << <<"0">>,
       <<"z", "e", "r", "o">>,
       <<"n", "o", "n", "e">>,
       <<"j", "u", "s", "t", " ", "m", "e">>,
       <<"s", "o", "l", "o">> >>,
      q3 |->
    << <<"n", "o">>,
       <<"n", "o", "t", " ", "y", "e", "t">>,
       <<"n", "o", "n", "e">>,
       <<"d", "o", "n", "'", "t", " ", "h", "a", "v", "e">> >>,
      q4 |->
    << <<"d", "o", "n", "'", "t", " ", "k", "n", "o", "w">>,
       <<"n", "o", "t", " ", "s", "u", "r", "e">>,
       <<"n", "o", " ", "b", "u", "d", "g", "e", "t">>,
       <<"f", "r", "e", "e">> >> ]

\* lines 293-308: the reason appended per question
R_Q ==
    [ q1 |-> <<"L", "e", "s", "s", " ", "t", "h", "a", "n", " ", "1", " ", "y", "e", "a", "r", " ", "i", "n", " ", "b", "u", "s", "i", "n", "e", "s", "s">>,
      q2 |-> <<"S", "o", "l", "o", " ", "e", "n", "t", "r", "e", "p", "r", "e", "n", "e", "u", "r", " ", "(", "n", "o", " ", "t", "e", "a", "m", ")">>,
      q3 |-> <<"N", "o", " ", "c", "u", "r", "r", "e", "n", "t", " ", "c", "l", "i", "e", "n", "t", "s">>,
      q4 |-> <<"N", "o", " ", "c", "l", "e", "a", "r", " ", "b", "u", "d", "g", "e", "t">> ]
\* lines 282-316: the fixed texts of the reason string
Reason ==
    [ sep |-> <<";", " ">>,
      notes |-> <<"Q", "u", "a", "l", "i", "f", "i", "e", "d", " ", "w", "i", "t", "h", " ", "n", "o", "t", "e", "s", ":", " ">>,
      strong |-> <<"S", "t", "r", "o", "n", "g", " ", "f", "i", "t", " ", "-", " ", "e", "s", "t", "a", "b", "l", "i", "s", "h", "e", "d", " ", "b", "u", "s", "i", "n", "e", "s", "s", " ", "w", "i", "t", "h", " ", "t", "e", "a", "m", " ", "a", "n", "d", " ", "c", "l", "i", "e", "n", "t", "s">>,
      noAnswers |-> <<"N", "o", " ", "a", "n", "s", "w", "e", "r", "s", " ", "r", "e", "c", "o", "r", "d", "e", "d">>,
      callStatus |-> <<"C", "a", "l", "l", " ", "s", "t", "a", "t", "u", "s", ":", " ">> ]

\* CallStatus values the provider reports
Status ==
    [ completed |-> <<"c", "o", "m", "p", "l", "e", "t", "e", "d">>,
      no_answer |-> <<"n", "o", "-", "a", "n", "s", "w", "e", "r">>,
      busy |-> <<"b", "u", "s", "y">>,
      failed |-> <<"f", "a", "i", "l", "e", "d">> ]

\* dict.get(key, default)
Get(d, key, default) == IF key \in DOMAIN d THEN d[key] ELSE default

\* the red-flag threshold of line 311
UnqualifiedThreshold == 3

\* the reasons list with q5 checked like q2
RedFlagReasonsCountingQ5(answers) ==
    LET years     == Lower(Get(answers, "q1", << >>))
        employees == Lower(Get(answers, "q2", << >>))
        clients   == Lower(Get(answers, "q3", << >>))
        budget    == Lower(Get(answers, "q4", << >>))
        space     == Lower(Get(answers, "q5", << >>))
    IN  (IF AnyIn(years, KW_Q["q1"])     THEN << R_Q["q1"] >> ELSE << >>)
     \o (IF AnyIn(employees, KW_Q["q2"]) THEN << R_Q["q2"] >> ELSE << >>)
     \o (IF AnyIn(clients, KW_Q["q3"])   THEN << R_Q["q3"] >> ELSE << >>)
     \o (IF AnyIn(budget, KW_Q["q4"])    THEN << R_Q["q4"] >> ELSE << >>)
     \o (IF AnyIn(space, KW_Q["q2"])     THEN << R_Q["q2"] >> ELSE << >>)

\* lines 288-308: the reasons list, in the order the checks are made
RedFlagReasons(answers) ==
    LET years     == Lower(Get(answers, "q1", << >>))
        employees == Lower(Get(answers, "q2", << >>))
        clients   == Lower(Get(answers, "q3", << >>))
        budget    == Lower(Get(answers, "q4", << >>))
    IN  (IF AnyIn(years, KW_Q["q1"])     THEN << R_Q["q1"] >> ELSE << >>)
     \o (IF AnyIn(employees, KW_Q["q2"]) THEN << R_Q["q2"] >> ELSE << >>)
     \o (IF AnyIn(clients, KW_Q["q3"])   THEN << R_Q["q3"] >> ELSE << >>)
     \o (IF AnyIn(budget, KW_Q["q4"])    THEN << R_Q["q4"] >> ELSE << >>)

\* the verdict policy with the threshold off by one (2 flags disqualify)
VerdictStrict(reasons) ==
    IF Len(reasons) >= UnqualifiedThreshold - 1
    THEN [status |-> UNQUALIFIED, reason |-> Join(reasons, Reason.sep)]
    ELSE IF Len(reasons) >= 1
    THEN [status |-> QUALIFIED, reason |-> Reason.notes \o Join(reasons, Reason.sep)]
    ELSE [status |-> QUALIFIED, reason |-> Reason.strong]

\* lines 310-316
Verdict(reasons) ==
    IF Len(reasons) >= UnqualifiedThreshold
    THEN [status |-> UNQUALIFIED, reason |-> Join(reasons, Reason.sep)]
    ELSE IF Len(reasons) >= 1
    THEN [status |-> QUALIFIED, reason |-> Reason.notes \o Join(reasons, Reason.sep)]
    ELSE [status |-> QUALIFIED, reason |-> Reason.strong]

\* the engine without the call-status test of lines 281-282
DetermineQualificationIgnoringStatus(answers, call_status) ==
    IF ~ \E q \in DOMAIN answers : answers[q] # << >>
    THEN [status |-> NO_ANSWER, reason |-> Reason.noAnswers]
    ELSE Verdict(RedFlagReasons(answers))

\* the engine without the any(answers.values()) test of lines 285-286
DetermineQualificationIgnoringEmpty(answers, call_status) ==
    IF call_status # Status.completed
    THEN [status |-> NO_ANSWER, reason |-> Reason.callStatus \o call_status]
    ELSE Verdict(RedFlagReasons(answers))

\* an engine that leaves a completed call without answers pending
DetermineQualificationPendingWhenSilent(answers, call_status) ==
    IF call_status # Status.completed
    THEN [status |-> NO_ANSWER, reason |-> Reason.callStatus \o call_status]
    ELSE IF ~ \E q \in DOMAIN answers : answers[q] # << >>
    THEN [status |-> PENDING, reason |-> Reason.noAnswers]
    ELSE Verdict(RedFlagReasons(answers))

\* an engine that reads q1 from the call-state store when a hash holds it
DetermineQualificationReadingStore(answers, call_status) ==
    LET stored == {callData[c]["answer_q1"] :
                      c \in {x \in DOMAIN callData : "answer_q1" \in DOMAIN callData[x]}}
        merged == IF stored = {} THEN answers
                  ELSE ("q1" :> (CHOOSE v \in stored : TRUE)) @@ answers
    IN  IF call_status # Status.completed
        THEN [status |-> NO_ANSWER, reason |-> Reason.callStatus \o call_status]
        ELSE IF ~ \E q \in DOMAIN merged : merged[q] # << >>
        THEN [status |-> NO_ANSWER, reason |-> Reason.noAnswers]
        ELSE Verdict(RedFlagReasons(merged))

\* _determine_qualification(answers, call_status) -> (status, reason)
DetermineQualification(answers, call_status) ==
    IF call_status # Status.completed
    THEN [status |-> NO_ANSWER, reason |-> Reason.callStatus \o call_status]
    ELSE IF ~ \E q \in DOMAIN answers : answers[q] # << >>
    THEN [status |-> NO_ANSWER, reason |-> Reason.noAnswers]
    ELSE Verdict(RedFlagReasons(answers))

-----------------------------------------------------------------------------
(* Dates and numbers as Redis stores them (everything in Redis is text)    *)

TzSuffix == <<"+", "0", "0", ":", "0", "0">>

\* a datetime: seconds on some fixed scale, and whether it carries a tzinfo
DateTime(secs, aware) == [secs |-> secs, aware |-> aware]

\* datetime.utcnow(): a naive datetime
UtcNow(now) == DateTime(now, FALSE)

\* datetime.isoformat(): an aware datetime is rendered with its UTC offset
IsoFormat(dt) == NatStr(dt.secs) \o (IF dt.aware THEN TzSuffix ELSE << >>)

HasTzSuffix(s) ==
    /\ Len(s) > Len(TzSuffix)
    /\ SubSeq(s, Len(s) - Len(TzSuffix) + 1, Len(s)) = TzSuffix

\* datetime.fromisoformat(text) succeeds exactly on what isoformat produces
IsIsoFormat(s) ==
    \/ AllDigits(s)
    \/ HasTzSuffix(s) /\ AllDigits(SubSeq(s, 1, Len(s) - Len(TzSuffix)))

FromIsoFormat(s) ==
    IF HasTzSuffix(s)
    THEN DateTime(ParseNat(SubSeq(s, 1, Len(s) - Len(TzSuffix))), TRUE)
    ELSE DateTime(ParseNat(s), FALSE)

\* a - b on datetimes raises TypeError when exactly one of them is aware
CanSubtract(a, b) == a.aware = b.aware

\* the difference taken the other way round
TotalSecondsReversed(a, b) == b.secs - a.secs

\* (a - b).total_seconds(), a float with an integral value here
TotalSeconds(a, b) == a.secs - b.secs

\* str(x) of a float with an integral value:  "3.0", "-1.0"
FloatStr(x) ==
    (IF x < 0 THEN << "-" >> ELSE << >>)
    \o NatStr(IF x < 0 THEN 0 - x ELSE x) \o << ".", "0" >>

FloatBody(s) == IF Len(s) > 0 /\ s[1] = "-" THEN Tail(s) ELSE s

\* float(text) succeeds on the texts str(float) produces
IsFloatStr(s) ==
    LET b == FloatBody(s)
    IN  /\ Len(b) >= 3
        /\ SubSeq(b, Len(b) - 1, Len(b)) = << ".", "0" >>
        /\ AllDigits(SubSeq(b, 1, Len(b) - 2))

ParseFloat(s) ==
    LET b == FloatBody(s)
        n == ParseNat(SubSeq(b, 1, Len(b) - 2))
    IN  IF Len(s) > 0 /\ s[1] = "-" THEN 0 - n ELSE n

-----------------------------------------------------------------------------
(* Redis: app/services/redis_client.py                                     *)

EmptyHash == [f \in {} |-> << >>]

\* a key exists in Redis exactly while its hash has at least one field
KeyExists(store, sid) == DOMAIN store[sid] # {}

\* HSET key field value
HSet(store, sid, field, value) ==
    [store EXCEPT ![sid] = (field :> value) @@ store[sid]]

\* the first n entries of a dict, in insertion order
FirstFields(order, data, n) ==
    [f \in {order[i] : i \in 1..(IF n < Len(order) THEN n ELSE Len(order))} |-> data[f]]

\* store_call_data: one HSET per field in dict order, then EXPIRE.  `done` is
\* the number of Redis commands that complete before the connection fails
\* (Len(order) + 1 = all of them).  Result: the new hashes, the new expiry
\* flags and whether the method raised.
StoreCallData(store, ttl, sid, order, data, done) ==
    [ data   |-> [store EXCEPT ![sid] = FirstFields(order, data, done) @@ store[sid]],
      ttl    |-> IF done > Len(order) THEN [ttl EXCEPT ![sid] = TRUE] ELSE ttl,
      raised |-> done <= Len(order) ]

\* get_call_data: HGETALL, `None` for an empty result
HasCallData(store, sid) == KeyExists(store, sid)
GetCallData(store, sid) == store[sid]

\* update_call_answer: a bare HSET of answer_{question_id}
AnswerField(question_id) ==
    CASE question_id = "q1" -> "answer_q1"
      [] question_id = "q2" -> "answer_q2"
      [] question_id = "q3" -> "answer_q3"
      [] question_id = "q4" -> "answer_q4"
      [] question_id = "q5" -> "answer_q5"
      [] question_id = "q9" -> "answer_q9"
      [] question_id = "phone" -> "answer_phone"
      [] question_id = "sms_sent_at" -> "answer_sms_sent_at"
\* an update that takes the question id itself as the field name
UpdateCallAnswerUnprefixed(store, sid, question_id, answer) ==
    HSet(store, sid, question_id, answer)

\* an update that keeps the value a field already holds (HSETNX)
UpdateCallAnswerFirstWins(store, sid, question_id, answer) ==
    IF AnswerField(question_id) \in DOMAIN store[sid] THEN store
    ELSE HSet(store, sid, AnswerField(question_id), answer)

\* an update that writes the record anew with the answer as its only field
UpdateCallAnswerReplacing(store, sid, question_id, answer) ==
    [store EXCEPT ![sid] = (AnswerField(question_id) :> answer)]

UpdateCallAnswer(store, sid, question_id, answer) ==
    HSet(store, sid, AnswerField(question_id), answer)

\* mark_email_processed: SETEX processed_email:{id} 7d "1"
MarkEmailProcessed(markers, email_id) == markers \cup {email_id}

\* a lookup that never finds the marker
IsEmailProcessedNever(markers, email_id) == FALSE

\* is_email_processed: EXISTS processed_email:{id}
IsEmailProcessed(markers, email_id) == email_id \in markers

-----------------------------------------------------------------------------
(* TwiML: app/services/twilio_service.py TwiMLGenerator                    *)

QUESTIONS == [q \in Qs |->
    CASE q = "q1" -> "How many years have you been in business?"
      [] q = "q2" -> "How many employees do you have?"
      [] q = "q3" -> "Do you currently have clients?"
      [] q = "q4" -> "What is your monthly budget for office space?"
      [] q = "q5" -> "Do you want a private office or are you interested in coworking?"]

\* a webhook URL: endpoint, path parameter and the query string's flags
\* (retry = -1: no retry parameter)
NoRetry == -1
Url(ep, qid, retry, skip) == [ep |-> ep, qid |-> qid, retry |-> retry, skip |-> skip]
NoUrl == Url("none", "", NoRetry, FALSE)

Say(text)     == [verb |-> "Say",      text |-> text, url |-> NoUrl]
Gather(text, action) == [verb |-> "Gather", text |-> text, url |-> action]
Redirect(url) == [verb |-> "Redirect", text |-> "",   url |-> url]
Hangup        == [verb |-> "Hangup",   text |-> "",   url |-> NoUrl]

\* TwiMLGenerator.greeting
Greeting(lead_name) ==
    << Say("Hello, this is Mesh Cowork calling about your inquiry."),
       Redirect(Url("question", "q1", NoRetry, FALSE)) >>

\* the retry limit of line 125
MaxRetries == 1

\* ask_question that gives up on the first silence (retry limit 0)
TwimlAskQuestionNoRetry(question_id, call_sid, retry_count) ==
    IF question_id \notin DOMAIN QUESTIONS
    THEN << Say("Thank you for your time."), Hangup >>
    ELSE << Gather(QUESTIONS[question_id],
                   Url("answer", question_id, retry_count, FALSE)),
            Say("I'll skip that question for now."),
            Redirect(Url("answer", question_id, NoRetry, TRUE)) >>

\* an ask_question that prompts for any question id
TwimlAskQuestionAnyId(question_id, call_sid, retry_count) ==
    << Gather(Get(QUESTIONS, question_id, ""),
              Url("answer", question_id, retry_count, FALSE)) >>
    \o (IF retry_count < MaxRetries
        THEN << Say("I didn't catch that. Let me ask again."),
                Redirect(Url("question", question_id, retry_count + 1, FALSE)) >>
        ELSE << Say("I'll skip that question for now."),
                Redirect(Url("answer", question_id, NoRetry, TRUE)) >>)

\* TwiMLGenerator.ask_question(question_id, call_sid, retry_count)
TwimlAskQuestion(question_id, call_sid, retry_count) ==
    IF question_id \notin DOMAIN QUESTIONS
    THEN << Say("Thank you for your time."), Hangup >>
    ELSE << Gather(QUESTIONS[question_id],
                   Url("answer", question_id, retry_count, FALSE)) >>
         \o (IF retry_count < MaxRetries
             THEN << Say("I didn't catch that. Let me ask again."),
                     Redirect(Url("question", question_id, retry_count + 1, FALSE)) >>
             ELSE << Say("I'll skip that question for now."),
                     Redirect(Url("answer", question_id, NoRetry, TRUE)) >>)

\* the next_q table of lines 147-153 ("" stands for None)
NextQ == [q \in Qs |->
    CASE q = "q1" -> "q2"
      [] q = "q2" -> "q3"
      [] q = "q3" -> "q4"
      [] q = "q4" -> "q5"
      [] q = "q5" -> ""]

\* a next_question whose table sends q1 to q3
TwimlNextQuestionSkipping(current_question_id) ==
    LET next_question_id == IF current_question_id = "q1" THEN "q3"
                            ELSE Get(NextQ, current_question_id, "")
    IN  IF next_question_id # ""
        THEN << Redirect(Url("question", next_question_id, NoRetry, FALSE)) >>
        ELSE << Say("Thank you for answering my questions."), Hangup >>

\* TwiMLGenerator.next_question
TwimlNextQuestion(current_question_id) ==
    LET next_question_id == Get(NextQ, current_question_id, "")
    IN  IF next_question_id # ""
        THEN << Redirect(Url("question", next_question_id, NoRetry, FALSE)) >>
        ELSE << Say("Thank you for answering my questions."), Hangup >>

\* TwiMLGenerator.error
TwimlError ==
    << Say("We're experiencing technical difficulties."), Hangup >>

-----------------------------------------------------------------------------
(* Webhook handlers: app/main.py                                           *)

\* call_start: greeting when the call state is found, the error response
\* otherwise.  redisOk: the Redis command of the handler succeeds; when it does
\* not, the handler's `except Exception` answers with the error response.
CallStart(store, CallSid, redisOk) ==
    IF ~ redisOk
    THEN TwimlError
    ELSE IF ~ HasCallData(store, CallSid)
    THEN TwimlError
    ELSE Greeting(Get(GetCallData(store, CallSid), "name", << >>))

\* ask_question(question_id): the handler takes the path parameter only and
\* calls the generator with its default retry_count
DefaultRetryCount == 0
AskQuestion(question_id) ==
    TwimlAskQuestion(question_id, "None", DefaultRetryCount)

\* a process_answer that asks again when the recogniser's confidence (an
\* Optional percentage) is missing or below one half
ProcessAnswerGatedOnConfidence(store, question_id, CallSid, SpeechResult, Confidence, redisOk) ==
    IF SpeechResult # << >> /\ ~ redisOk
    THEN [ data |-> store, twiml |-> TwimlError, exc |-> TRUE ]
    ELSE IF SpeechResult # << >> /\ (Confidence = << >> \/ Confidence[1] < 50)
    THEN [ data |-> store, twiml |-> TwimlAskQuestion(question_id, CallSid, 0),
           exc |-> FALSE ]
    ELSE [ data  |-> IF SpeechResult # << >>
                     THEN UpdateCallAnswer(store, CallSid, question_id, SpeechResult)
                     ELSE store,
           twiml |-> TwimlNextQuestion(question_id),
           exc   |-> FALSE ]

\* process_answer: stores a non-empty SpeechResult (<<>> stands for None
\* and for ""), then answers with next_question; a failing HSET is caught and
\* answered with the error response.  Confidence is logged and nothing else.
ProcessAnswer(store, question_id, CallSid, SpeechResult, Confidence, redisOk) ==
    IF SpeechResult # << >> /\ ~ redisOk
    THEN [ data |-> store, twiml |-> TwimlError, exc |-> TRUE ]
    ELSE [ data  |-> IF SpeechResult # << >>
                     THEN UpdateCallAnswer(store, CallSid, question_id, SpeechResult)
                     ELSE store,
           twiml |-> TwimlNextQuestion(question_id),
           exc   |-> FALSE ]

\* call_status: on "completed" enqueues finalize_lead_record and, when the
\* call state is found, stamps sms_sent_at into it.  CallDuration << >> stands
\* for a missing form field.  redisOk: the Redis commands after the enqueue
\* succeed; a failure is caught and reported in the payload.
CallStatusAnyStatus(store, CallSid, CallStatus_, CallDuration, now, redisOk) ==
    [ enqueued |-> << [call_sid |-> CallSid, call_status |-> CallStatus_,
                       call_duration |-> IF CallDuration # << >>
                                         THEN ParseNat(CallDuration) ELSE 0] >>,
      data |-> store,
      response |-> "received" ]

CallStatus(store, CallSid, CallStatus_, CallDuration, now, redisOk) ==
    IF CallStatus_ = Status.completed
    THEN [ enqueued |-> << [call_sid |-> CallSid, call_status |-> CallStatus_,
                            call_duration |-> IF CallDuration # << >>
                                              THEN ParseNat(CallDuration) ELSE 0] >>,
           data |-> IF redisOk /\ HasCallData(store, CallSid)
                    THEN UpdateCallAnswer(store, CallSid, "sms_sent_at",
                                          IsoFormat(UtcNow(now)))
                    ELSE store,
           response |-> IF redisOk THEN "received" ELSE "error" ]
    ELSE [ enqueued |-> << >>, data |-> store, response |-> "received" ]

-----------------------------------------------------------------------------
(* The telephony provider executing a TwiML document                       *)

Request(url, speech) == [url |-> url, speech |-> speech]
NoRequest == Request(NoUrl, << >>)

\* Verbs run in order.  <Gather> posts the captured speech to its action; with
\* nothing captured it falls through to the next verb.  <Redirect> requests
\* its URL.  <Hangup>, or the end of the document, ends the call.
RECURSIVE RunTwiml(_, _)
RunTwiml(doc, speech) ==
    IF doc = << >> THEN NoRequest
    ELSE LET v == Head(doc)
         IN  CASE v.verb = "Say"      -> RunTwiml(Tail(doc), speech)
               [] v.verb = "Gather"   -> IF speech # << >>
                                         THEN Request(v.url, speech)
                                         ELSE RunTwiml(Tail(doc), speech)
               [] v.verb = "Redirect" -> Request(v.url, << >>)
               [] v.verb = "Hangup"   -> NoRequest

\* the question a document prompts for ("" when it has no <Gather>)
GatherOf(doc) ==
    IF \E i \in 1..Len(doc) : doc[i].verb = "Gather"
    THEN doc[CHOOSE i \in 1..Len(doc) : doc[i].verb = "Gather"].url.qid
    ELSE ""

EndsInHangup(doc) == Len(doc) > 0 /\ doc[Len(doc)].verb = "Hangup"

-----------------------------------------------------------------------------
(* Bounds and input sets                                                   *)

\* call sids the provider can hand out, and one it never hands out
CallSids == {"CA1"}
StraySid == "CA0"
AllSids  == CallSids \cup {StraySid}

\* source messages in the mailbox
MsgIds == {"m1", "m2"}

\* the worker's clock reads 0..MaxTime when a task runs
MaxTime == 2
Times == 0..MaxTime

\* direct posts to the webhooks, Gather prompts per question, TTL expiries
MaxPosts == 2
MaxPrompts == 3
MaxExpiries == 1

None == << "<None>" >>
\* str(value)
Str(v) == IF v = None THEN <<"N", "o", "n", "e">> ELSE v

\* what a caller may say to a question (SpeechResult)
Spoken ==
    [ yes |-> <<"y", "e", "s">>,
      zeroNone |-> <<"z", "e", "r", "o", " ", "n", "o", "n", "e">>,
      tenYears |-> <<"1", "0", " ", "y", "e", "a", "r", "s">>,
      twoYears |-> <<"2", " ", "y", "e", "a", "r", "s">>,
      JustStarted |-> <<"J", "u", "s", "t", " ", "s", "t", "a", "r", "t", "e", "d">>,
      fiveEmployees |-> <<"5", " ", "e", "m", "p", "l", "o", "y", "e", "e", "s">>,
      solo |-> <<"s", "o", "l", "o">>,
      justMe |-> <<"j", "u", "s", "t", " ", "m", "e">>,
      noClientsYet |-> <<"n", "o", " ", "c", "l", "i", "e", "n", "t", "s", " ", "y", "e", "t">>,
      twoThousand |-> <<"$", "2", "0", "0", "0", "/", "m", "o">>,
      NotSure |-> <<"N", "o", "t", " ", "s", "u", "r", "e">>,
      privateOffice |-> <<"p", "r", "i", "v", "a", "t", "e", " ", "o", "f", "f", "i", "c", "e">>,
      justStarted |-> <<"j", "u", "s", "t", " ", "s", "t", "a", "r", "t", "e", "d">>,
      notSure |-> <<"n", "o", "t", " ", "s", "u", "r", "e">> ]
SpeechTexts == {Spoken.yes, Spoken.zeroNone}

\* the lead the poller parses out of message m when its body names every
\* field (UnbounceLead.model_dump(), with email_received_at in ISO form).  The
\* Date header of m1 carries no UTC offset (a naive datetime), the one of m2
\* does (an aware datetime).
LeadOf(m) ==
    [ fname      |-> IF m = "m1" THEN <<"A", "n", "n">> ELSE <<"B", "o", "b">>,
      email      |-> IF m = "m1" THEN <<"a", "@", "x">> ELSE <<"b", "@", "x">>,
      phone      |-> IF m = "m1" THEN <<"5", "5", "5", "1">> ELSE <<"5", "5", "5", "2">>,
      what_kind_of_office_space_are_you_interested_in |->
          <<"P", "r", "i", "v", "a", "t", "e">>,
      message    |-> None,
      campaignid |-> None,
      email_received_at |-> IsoFormat(DateTime(1, m = "m2")),
      page_name  |-> <<"P">>,
      page_url   |-> <<"U">> ]
Leads == {LeadOf(m) : m \in MsgIds}

\* the form fields the lead notification can name in its body
F_interest == "what_kind_of_office_space_are_you_interested_in"
FormFields == {"fname", "email", "phone", F_interest}

\* bodies the mailbox delivers, by the form fields they name
Bodies ==
    {FormFields, FormFields \ {F_interest}, FormFields \ {"phone"},
     {"phone", F_interest}}

T_Other == <<"O", "t", "h", "e", "r">>

\* _parse_lead_data: the fields matched in the body, or None when fname,
\* email or phone is not among them.  An Optional result is a sequence of
\* length 0 (None) or 1.
ParseLeadData(present) ==
    IF {"fname", "email", "phone"} \subseteq present THEN << present >> ELSE << >>

\* parse_unbounce_email: None when the fetch, the Date header or the body fail
\* (fetchOk) or _parse_lead_data returns None; otherwise the UnbounceLead, with
\* the interest category defaulted to "Other" when the body does not name it
ParseUnbounceEmail(email_id, present, fetchOk) ==
    IF ~ fetchOk \/ ParseLeadData(present) = << >>
    THEN << >>
    ELSE << [LeadOf(email_id) EXCEPT
               !.what_kind_of_office_space_are_you_interested_in =
                   IF F_interest \in ParseLeadData(present)[1] THEN @ ELSE T_Other] >>

-----------------------------------------------------------------------------
(* Pipeline tasks: app/tasks.py                                            *)

\* the dict process_lead hands to store_call_data, in insertion order
CallFieldOrder ==
    << "name", "email", "phone", "office_space_interest", "message",
       "campaign_id", "email_received_at", "call_initiated_at",
       "speed_to_lead_seconds", "page_name", "page_url" >>

CallFields(lead_data, email_received_at, call_initiated_at, speed_to_lead) ==
    [ name  |-> Str(lead_data.fname),
      email |-> Str(lead_data.email),
      phone |-> Str(lead_data.phone),
      office_space_interest |->
          Str(lead_data.what_kind_of_office_space_are_you_interested_in),
      message     |-> Str(lead_data.message),
      campaign_id |-> Str(lead_data.campaignid),
      email_received_at |-> Str(IsoFormat(email_received_at)),
      call_initiated_at |-> Str(IsoFormat(call_initiated_at)),
      speed_to_lead_seconds |-> Str(FloatStr(speed_to_lead)),
      page_name |-> Str(lead_data.page_name),
      page_url  |-> Str(lead_data.page_url) ]

\* a row of the CRM table (the fields the properties read)
CrmRecord(call_sid, phone, status, reason, speed, call_status, duration) ==
    [ call_sid |-> call_sid, phone |-> phone,
      qualification_status |-> status, qualification_reason |-> reason,
      speed_to_lead_seconds |-> speed,
      call_status |-> call_status, call_duration |-> duration ]

\* an AgentActivity row
Activity(type, phone, status) ==
    [activity_type |-> type, lead_phone |-> phone, status |-> status]

\* every Redis command process_lead issues: SETEX, the HSETs, EXPIRE
AllRedisCommands == Len(CallFieldOrder) + 2

\* a process_lead that also writes an audit row when the call placement failed
ProcessLeadAuditingFailure(lead_data, store, ttl, now, call_sid, crmOk, auditOk, done) ==
    LET call_initiated_at == UtcNow(now)
        email_received_at == FromIsoFormat(lead_data.email_received_at)
        speed == TotalSeconds(call_initiated_at, email_received_at)
        nothing == [ exc |-> TRUE, ret |-> "ERROR", timestamp |-> FALSE,
                     attempts |-> 0,
                     placed |-> "", crmCalled |-> FALSE, crm |-> << >>,
                     audit |-> << >>, data |-> store, ttl |-> ttl ]
        st == StoreCallData(store, ttl, call_sid, CallFieldOrder,
                  CallFields(lead_data, email_received_at, call_initiated_at, speed),
                  done - 1)
    IN  IF done < 1
        THEN nothing
        ELSE IF call_sid = ""
        THEN IF ~ CanSubtract(call_initiated_at, email_received_at)
             THEN [nothing EXCEPT !.timestamp = TRUE,
                                  !.attempts = 1]
             ELSE [nothing EXCEPT
                     !.exc = FALSE, !.ret = "CALL_FAILED", !.timestamp = TRUE,
                     !.attempts = 1, !.crmCalled = TRUE,
                     !.crm = IF crmOk
                             THEN << CrmRecord("", lead_data.phone, CALL_FAILED,
                                         <<"F">>, speed, << >>, 0) >>
                             ELSE << >>,
                     !.audit = IF auditOk
                               THEN << Activity("call_made", lead_data.phone, "failed") >>
                               ELSE << >>]
        ELSE IF ~ CanSubtract(call_initiated_at, email_received_at)
        THEN [nothing EXCEPT !.timestamp = TRUE, !.attempts = 1,
                             !.placed = call_sid]
        ELSE [ exc |-> st.raised,
               ret |-> IF st.raised THEN "ERROR" ELSE call_sid,
               timestamp |-> TRUE,
               attempts |-> 1,
               placed |-> call_sid,
               crmCalled |-> FALSE,
               crm |-> << >>,
               audit |-> IF auditOk
                         THEN << Activity("call_made", lead_data.phone, "initiated") >>
                         ELSE << >>,
               data |-> st.data,
               ttl |-> st.ttl ]

\* process_lead(lead_data).  Inputs besides the task argument: the clock,
\* the sid the provider returns ("" = call placement failed), whether the
\* CRM create and the audit insert succeed, and `done`, the number of Redis
\* commands that complete before the connection fails.  The result lists the
\* task's effects and its return value; exc marks the paths that leave the
\* body through the task's `except Exception`.
ProcessLead(lead_data, store, ttl, now, call_sid, crmOk, auditOk, done) ==
    LET call_initiated_at == UtcNow(now)
        email_received_at == FromIsoFormat(lead_data.email_received_at)
        speed == TotalSeconds(call_initiated_at, email_received_at)
        nothing == [ exc |-> TRUE, ret |-> "ERROR", timestamp |-> FALSE,
                     attempts |-> 0,
                     placed |-> "", crmCalled |-> FALSE, crm |-> << >>,
                     audit |-> << >>, data |-> store, ttl |-> ttl ]
        st == StoreCallData(store, ttl, call_sid, CallFieldOrder,
                  CallFields(lead_data, email_received_at, call_initiated_at, speed),
                  done - 1)
    IN  IF done < 1
        THEN nothing                                   \* line 39 raises
        ELSE IF call_sid = ""
        THEN IF ~ CanSubtract(call_initiated_at, email_received_at)
             THEN [nothing EXCEPT !.timestamp = TRUE,   \* line 62 raises
                                  !.attempts = 1]
             ELSE [nothing EXCEPT
                     !.exc = FALSE, !.ret = "CALL_FAILED", !.timestamp = TRUE,
                     !.attempts = 1, !.crmCalled = TRUE,
                     !.crm = IF crmOk
                             THEN << CrmRecord("", lead_data.phone, CALL_FAILED,
                                         <<"F">>, speed, << >>, 0) >>
                             ELSE << >>]
        ELSE IF ~ CanSubtract(call_initiated_at, email_received_at)
        THEN [nothing EXCEPT !.timestamp = TRUE, !.attempts = 1,
                             !.placed = call_sid]      \* line 71 raises
        ELSE [ exc |-> st.raised,
               ret |-> IF st.raised THEN "ERROR" ELSE call_sid,
               timestamp |-> TRUE,
               attempts |-> 1,
               placed |-> call_sid,
               crmCalled |-> FALSE,
               crm |-> << >>,
               audit |-> IF auditOk
                         THEN << Activity("call_made", lead_data.phone, "initiated") >>
                         ELSE << >>,
               data |-> st.data,
               ttl |-> st.ttl ]

\* the outcome finalize_lead_record reports when it changes nothing
FinalizeNothing(exc, found) ==
    [ exc |-> exc, ret |-> FALSE, found |-> found, verdict |-> << >>,
      crmCalled |-> FALSE, crm |-> << >>, sms |-> << >>, audit |-> << >> ]

\* LeadRecord(...) of lines 211-230 can be built: both timestamps parse and
\* the speed-to-lead text is a float
CanBuildLeadRecord(call_data) ==
    /\ "email_received_at" \in DOMAIN call_data
    /\ IsIsoFormat(call_data["email_received_at"])
    /\ "call_initiated_at" \in DOMAIN call_data
    /\ IsIsoFormat(call_data["call_initiated_at"])
    /\ IsFloatStr(Get(call_data, "speed_to_lead_seconds", <<"0", ".", "0">>))

\* a finalize_lead_record that gives up when the CRM create returns None
FinalizeAbortingOnCrmFailure(store, call_sid, call_status, call_duration, redisOk, crmOk, auditOk) ==
    IF ~ redisOk
    THEN FinalizeNothing(TRUE, FALSE)
    ELSE IF ~ HasCallData(store, call_sid)
    THEN FinalizeNothing(FALSE, FALSE)
    ELSE
    LET call_data == GetCallData(store, call_sid)
        call_answers == [q \in Qs |-> Get(call_data, AnswerField(q), << >>)]
        q == DetermineQualification(call_answers, call_status)
        phone == Get(call_data, "phone", << >>)
        name  == Get(call_data, "name", << >>)
        qualified == (q.status = QUALIFIED)
    IN  IF ~ CanBuildLeadRecord(call_data)
        THEN [FinalizeNothing(TRUE, TRUE) EXCEPT !.verdict = << q >>]
        ELSE IF ~ crmOk
        THEN [FinalizeNothing(FALSE, TRUE) EXCEPT !.verdict = << q >>,
                                                  !.crmCalled = TRUE]
        ELSE [ exc |-> FALSE, ret |-> TRUE, found |-> TRUE,
               verdict |-> << q >>,
               crmCalled |-> TRUE,
               crm |-> << CrmRecord(call_sid, phone, q.status, q.reason,
                              ParseFloat(Get(call_data, "speed_to_lead_seconds",
                                             <<"0", ".", "0">>)),
                              call_status, call_duration) >>,
               sms |-> << [phone |-> phone, name |-> name, qualified |-> qualified] >>,
               audit |-> IF auditOk
                         THEN << Activity("lead_processed", phone,
                                     IF qualified THEN "qualified" ELSE "not_qualified") >>
                         ELSE << >> ]

\* a finalize_lead_record that reads every answer with call_data[...] and so
\* raises KeyError when one is missing
FinalizeNeedingAllAnswers(store, call_sid, call_status, call_duration, redisOk, crmOk, auditOk) ==
    IF ~ redisOk
    THEN FinalizeNothing(TRUE, FALSE)
    ELSE IF ~ HasCallData(store, call_sid)
    THEN FinalizeNothing(FALSE, FALSE)
    ELSE IF \E q \in Qs : AnswerField(q) \notin DOMAIN GetCallData(store, call_sid)
    THEN FinalizeNothing(TRUE, TRUE)
    ELSE
    LET call_data == GetCallData(store, call_sid)
        call_answers == [q \in Qs |-> call_data[AnswerField(q)]]
        q == DetermineQualification(call_answers, call_status)
        phone == Get(call_data, "phone", << >>)
        name  == Get(call_data, "name", << >>)
        qualified == (q.status = QUALIFIED)
    IN  IF ~ CanBuildLeadRecord(call_data)
        THEN [FinalizeNothing(TRUE, TRUE) EXCEPT !.verdict = << q >>]
        ELSE [ exc |-> FALSE, ret |-> TRUE, found |-> TRUE,
               verdict |-> << q >>,
               crmCalled |-> TRUE,
               crm |-> IF crmOk
                       THEN << CrmRecord(call_sid, phone, q.status, q.reason,
                                   ParseFloat(Get(call_data, "speed_to_lead_seconds",
                                                  <<"0", ".", "0">>)),
                                   call_status, call_duration) >>
                       ELSE << >>,
               sms |-> << [phone |-> phone, name |-> name, qualified |-> qualified] >>,
               audit |-> IF auditOk
                         THEN << Activity("lead_processed", phone,
                                     IF qualified THEN "qualified" ELSE "not_qualified") >>
                         ELSE << >> ]

\* finalize_lead_record(call_sid, call_status, call_duration).  Inputs besides
\* the task arguments: whether Redis answers, whether the CRM create and the
\* audit insert succeed.
FinalizeLeadRecord(store, call_sid, call_status, call_duration, redisOk, crmOk, auditOk) ==
    IF ~ redisOk
    THEN FinalizeNothing(TRUE, FALSE)                  \* line 190 raises
    ELSE IF ~ HasCallData(store, call_sid)
    THEN FinalizeNothing(FALSE, FALSE)                 \* lines 192-194
    ELSE
    LET call_data == GetCallData(store, call_sid)
        call_answers == [q \in Qs |-> Get(call_data, AnswerField(q), << >>)]
        q == DetermineQualification(call_answers, call_status)
        phone == Get(call_data, "phone", << >>)
        name  == Get(call_data, "name", << >>)
        qualified == (q.status = QUALIFIED)
    IN  IF ~ CanBuildLeadRecord(call_data)
        THEN [FinalizeNothing(TRUE, TRUE) EXCEPT !.verdict = << q >>]
        ELSE [ exc |-> FALSE, ret |-> TRUE, found |-> TRUE,
               verdict |-> << q >>,
               crmCalled |-> TRUE,
               crm |-> IF crmOk
                       THEN << CrmRecord(call_sid, phone, q.status, q.reason,
                                   ParseFloat(Get(call_data, "speed_to_lead_seconds",
                                                  <<"0", ".", "0">>)),
                                   call_status, call_duration) >>
                       ELSE << >>,
               sms |-> << [phone |-> phone, name |-> name, qualified |-> qualified] >>,
               audit |-> IF auditOk
                         THEN << Activity("lead_processed", phone,
                                     IF qualified THEN "qualified" ELSE "not_qualified") >>
                         ELSE << >> ]

\* a send_followup_sms that knows the qualified template only
SendFollowupSmsOneTemplate(phone, name, qualified, smsOk, auditOk) ==
    [ exc |-> FALSE,
      ret |-> smsOk,
      sent |-> [phone |-> phone, template |-> "qualified", delivered |-> smsOk],
      audit |-> IF auditOk
                THEN << Activity("sms_sent", phone,
                            IF smsOk THEN "success" ELSE "failed") >>
                ELSE << >> ]

\* send_followup_sms(phone, name, qualified)
SendFollowupSms(phone, name, qualified, smsOk, auditOk) ==
    [ exc |-> FALSE,
      ret |-> smsOk,
      sent |-> [phone |-> phone,
                template |-> IF qualified THEN "qualified" ELSE "not_qualified",
                delivered |-> smsOk],
      audit |-> IF auditOk
                THEN << Activity("sms_sent", phone,
                            IF smsOk THEN "success" ELSE "failed") >>
                ELSE << >> ]

-----------------------------------------------------------------------------
(* Initial states                                                          *)

IdleFlow == [st |-> "idle", req |-> NoRequest, doc |-> << >>]
NoTask ==
    [ task |-> "none", key |-> "", exc |-> FALSE, ret |-> "", found |-> FALSE,
      crmCalled |-> FALSE, crmSaved |-> FALSE, smsEnqueued |-> FALSE,
      qualified |-> FALSE, miss |-> FALSE,
      attempts |-> 0, stored |-> FALSE, audited |-> FALSE ]
NoHook ==
    [ ep |-> "none", sid |-> "", miss |-> FALSE, exc |-> FALSE, status |-> << >>,
      qid |-> "", speech |-> << >>, confidence |-> << >>,
      duration |-> << >>, enqueued |-> << >>, payload |-> "", twiml |-> << >> ]
NoPoll == [email_id |-> "", outcome |-> "none", present |-> {}]
NoResult == [status |-> "", reason |-> << >>]

InitDecide ==
    /\ d_pc = "idle"
    /\ d_answers = EmptyHash
    /\ d_status = << >>
    /\ d_result = NoResult

InitStores ==
    /\ callData = [c \in AllSids |-> EmptyHash]
    /\ callTTL = [c \in AllSids |-> FALSE]
    /\ processedEmail = {}
    /\ leadTimestamp = EmptyHash

InitVoice ==
    /\ flow = [c \in AllSids |-> IdleFlow]
    /\ prompts = [c \in AllSids |-> [q \in Qs |-> 0]]
    /\ empties = [c \in AllSids |-> [q |-> "", n |-> 0]]
    /\ inflight = {}

InitPipeline ==
    /\ finalizeQ = EmptyBag
    /\ smsQ = EmptyBag
    /\ twilioCalls = {}
    /\ airtable = << >>
    /\ smsOut = EmptyBag
    /\ activity = EmptyBag
    /\ stateExpired = {}
    /\ verdictsFor = [c \in AllSids |-> 0]
    /\ followupsFor = [c \in AllSids |-> 0]
    /\ lastTask = NoTask
    /\ posts = 0
    /\ lastHook = NoHook

\* the poller has not looked at the mailbox yet
InitPoll ==
    /\ InitDecide /\ InitStores /\ InitPipeline /\ InitVoice
    /\ unseen = MsgIds
    /\ intakeQ = EmptyBag
    /\ enqueuedFor = [m \in MsgIds |-> 0]
    /\ markerExpired = [m \in MsgIds |-> 0]
    /\ lastPoll = NoPoll

\* the poller has queued one of the messages: the pipeline's starting point
Init ==
    /\ InitDecide /\ InitPipeline /\ InitVoice
    /\ callData = [c \in AllSids |-> EmptyHash]
    /\ callTTL = [c \in AllSids |-> FALSE]
    /\ leadTimestamp = EmptyHash
    /\ \E m \in MsgIds :
         /\ processedEmail = {m}
         /\ unseen = MsgIds \ {m}
         /\ intakeQ = SetToBag({LeadOf(m)})
         /\ enqueuedFor = [x \in MsgIds |-> IF x = m THEN 1 ELSE 0]
         /\ lastPoll = [email_id |-> m, outcome |-> "queued",
                         present |-> FormFields]
    /\ markerExpired = [m \in MsgIds |-> 0]

-----------------------------------------------------------------------------
(* The poller: poller.py poll_gmail, one pass of the loop body per message *)

\* gmail_service.mark_as_read swallows its own errors: the message may stay
\* UNSEEN
MarkAsRead(mailbox, email_id, readOk) ==
    IF readOk THEN mailbox \ {email_id} ELSE mailbox

\* lines 39-74 for one email id.  present: the form fields the body names;
\* parseOk: the message can be fetched and read; redisOk: the Redis commands of
\* this pass succeed; delayOk: process_lead.delay reaches the broker (when it
\* does not, it raises after the marker is set and the `except` of line 72
\* moves on to the next message).
PollEmail(email_id, markers, mailbox, present, parseOk, redisOk, readOk, delayOk) ==
    IF ~ redisOk
    THEN [markers |-> markers, mailbox |-> mailbox, queued |-> << >>,
          outcome |-> "error"]
    ELSE IF IsEmailProcessed(markers, email_id)
    THEN [markers |-> markers,
          mailbox |-> MarkAsRead(mailbox, email_id, readOk), queued |-> << >>,
          outcome |-> "skipped"]
    ELSE IF ParseUnbounceEmail(email_id, present, parseOk) = << >>
    THEN [markers |-> markers,
          mailbox |-> MarkAsRead(mailbox, email_id, readOk), queued |-> << >>,
          outcome |-> "unparsed"]
    ELSE IF ~ delayOk
    THEN [markers |-> MarkEmailProcessed(markers, email_id),
          mailbox |-> MarkAsRead(mailbox, email_id, readOk), queued |-> << >>,
          outcome |-> "error"]
    ELSE [markers |-> MarkEmailProcessed(markers, email_id),
          mailbox |-> MarkAsRead(mailbox, email_id, readOk),
          queued  |-> ParseUnbounceEmail(email_id, present, parseOk),
          outcome |-> "queued"]

Poll(m) ==
    /\ m \in unseen
    /\ \E present \in Bodies,
          parseOk \in BOOLEAN, redisOk \in BOOLEAN, readOk \in BOOLEAN,
          delayOk \in BOOLEAN :
         LET r == PollEmail(m, processedEmail, unseen, present, parseOk, redisOk,
                            readOk, delayOk)
         IN  /\ processedEmail' = r.markers
             /\ unseen' = r.mailbox
             /\ intakeQ' = IF r.queued = << >> THEN intakeQ
                           ELSE intakeQ (+) SetToBag({r.queued[1]})
             /\ enqueuedFor' = [enqueuedFor EXCEPT ![m] = @ + Len(r.queued)]
             /\ lastPoll' = [email_id |-> m, outcome |-> r.outcome,
                              present |-> present]
    /\ UNCHANGED << decideVars, callData, callTTL, leadTimestamp, finalizeQ, smsQ,
                    outVars, voiceVars, markerExpired, stateExpired, histVars, posts, lastHook >>

\* the mailbox owner flags a message unread again
MarkUnread(m) ==
    /\ m \notin unseen
    /\ unseen' = unseen \cup {m}
    /\ UNCHANGED << decideVars, callData, callTTL, leadTimestamp, processedEmail,
                    queueVars, outVars, voiceVars, enqueuedFor, markerExpired,
                    lastPoll, stateExpired, histVars, posts, lastHook >>

\* the 7-day expiry of processed_email:{id}
ExpireMarker(m) ==
    /\ m \in processedEmail
    /\ markerExpired[m] < MaxExpiries
    /\ processedEmail' = processedEmail \ {m}
    /\ markerExpired' = [markerExpired EXCEPT ![m] = @ + 1]
    /\ UNCHANGED << decideVars, callData, callTTL, leadTimestamp, unseen, queueVars,
                    outVars, voiceVars, enqueuedFor, lastPoll, stateExpired, histVars,
                    posts, lastHook >>

\* the 24-hour expiry of call_data:{sid}, for a key that carries one
ExpireCallData(c) ==
    /\ KeyExists(callData, c)
    /\ callTTL[c]
    /\ callData' = [callData EXCEPT ![c] = EmptyHash]
    /\ callTTL' = [callTTL EXCEPT ![c] = FALSE]
    /\ stateExpired' = stateExpired \cup {c}
    /\ UNCHANGED << decideVars, leadTimestamp, pollVars, queueVars,
                    outVars, voiceVars, histVars, posts, lastHook >>

-----------------------------------------------------------------------------
(* Workers running the queued tasks                                        *)

\* outcomes of the audit insert (SessionLocal commit): it succeeds, or fails and
\* is swallowed by the task's inner try/except
AuditUp == {TRUE}

AddAll(bag, rows) == IF rows = << >> THEN bag ELSE bag (+) SetToBag({rows[1]})

\* outcomes of the Redis connection during process_lead: it fails on the
\* first command, after SETEX, part-way through the HSETs, on EXPIRE, or not
\* at all
RedisOutcomes ==
    {0, 1, Len(CallFieldOrder) \div 2, Len(CallFieldOrder) + 1, AllRedisCommands}

\* the hash of sid holds every field process_lead hands to store_call_data
FullCallState(store, sid) ==
    \A i \in 1..Len(CallFieldOrder) : CallFieldOrder[i] \in DOMAIN store[sid]

RunProcessLead(audits) ==
    \E lead \in BagToSet(intakeQ), now \in Times,
       sid \in (CallSids \ twilioCalls) \cup {""},
       crmOk \in BOOLEAN, auditOk \in audits, done \in RedisOutcomes :
      LET r == ProcessLead(lead, callData, callTTL, now, sid, crmOk, auditOk, done)
      IN  /\ intakeQ' = intakeQ (-) SetToBag({lead})
          /\ leadTimestamp' = IF r.timestamp
                              THEN (lead.phone :> lead.email_received_at) @@ leadTimestamp
                              ELSE leadTimestamp
          /\ twilioCalls' = IF r.placed = "" THEN twilioCalls
                            ELSE twilioCalls \cup {r.placed}
          /\ airtable' = airtable \o r.crm
          /\ activity' = AddAll(activity, r.audit)
          /\ callData' = r.data
          /\ callTTL' = r.ttl
          /\ lastTask' = [NoTask EXCEPT !.task = "process_lead", !.key = r.placed,
                            !.exc = r.exc, !.ret = r.ret,
                            !.attempts = r.attempts,
                            !.stored = (r.placed # "" /\ FullCallState(r.data, r.placed)),
                            !.audited = r.audit # << >>,
                            !.crmCalled = r.crmCalled, !.crmSaved = r.crm # << >>]
    /\ UNCHANGED << decideVars, pollVars, finalizeQ, smsQ, smsOut, voiceVars,
                    stateExpired, verdictsFor, followupsFor, posts, lastHook >>

\* a call id this system holds no live state for: the provider never handed
\* it out, or its call state has aged out
StateMiss(c) == c \notin twilioCalls \/ c \in stateExpired

RunFinalizeLeadRecord(audits) ==
    \E t \in BagToSet(finalizeQ),
       redisOk \in BOOLEAN, crmOk \in BOOLEAN, auditOk \in audits :
      LET r == FinalizeLeadRecord(callData, t.call_sid, t.call_status,
                                  t.call_duration, redisOk, crmOk, auditOk)
      IN  /\ finalizeQ' = finalizeQ (-) SetToBag({t})
          /\ airtable' = airtable \o r.crm
          /\ smsQ' = AddAll(smsQ, r.sms)
          /\ activity' = AddAll(activity, r.audit)
          /\ verdictsFor' = [verdictsFor EXCEPT ![t.call_sid] = @ + Len(r.verdict)]
          /\ followupsFor' = [followupsFor EXCEPT ![t.call_sid] = @ + Len(r.sms)]
          /\ lastTask' = [NoTask EXCEPT !.task = "finalize_lead_record",
                            !.key = t.call_sid, !.exc = r.exc,
                            !.miss = StateMiss(t.call_sid),
                            !.ret = IF r.ret THEN "True" ELSE "False",
                            !.found = r.found,
                            !.crmCalled = r.crmCalled, !.crmSaved = r.crm # << >>,
                            !.smsEnqueued = r.sms # << >>,
                            !.audited = r.audit # << >>,
                            !.qualified = (r.sms # << >> /\ r.sms[1].qualified)]
    /\ UNCHANGED << decideVars, callData, callTTL, leadTimestamp, pollVars, intakeQ,
                    twilioCalls, smsOut, voiceVars, stateExpired, posts, lastHook >>

RunSendFollowupSms(audits) ==
    \E t \in BagToSet(smsQ), smsOk \in BOOLEAN, auditOk \in audits :
      LET r == SendFollowupSms(t.phone, t.name, t.qualified, smsOk, auditOk)
      IN  /\ smsQ' = smsQ (-) SetToBag({t})
          /\ smsOut' = smsOut (+) SetToBag({r.sent})
          /\ activity' = AddAll(activity, r.audit)
          /\ lastTask' = [NoTask EXCEPT !.task = "send_followup_sms",
                            !.exc = r.exc,
                            !.ret = IF r.ret THEN "True" ELSE "False",
                            !.audited = r.audit # << >>,
                            !.qualified = t.qualified]
    /\ UNCHANGED << decideVars, callData, callTTL, leadTimestamp, pollVars, intakeQ,
                    finalizeQ, twilioCalls, airtable, voiceVars, stateExpired,
                    verdictsFor, followupsFor, posts, lastHook >>

-----------------------------------------------------------------------------
(* Requests reaching the webhook gateway                                   *)

StatusValues == {Status.completed, Status.no_answer}
Durations == {<< >>, << "7" >>}
PostQuestionIds == {"q1", "q9"}
\* the Confidence form field: absent, 0.0 or 0.9 (as a percentage)
Confidences == {<< >>, << 0 >>, << 90 >>}

\* a call-status callback for a call the provider placed, or for a sid this
\* system never stored.  observe: whether the request and its response are
\* kept in lastHook.
PostCallStatus(c, observe) ==
    /\ c \in twilioCalls \cup {StraySid}
    /\ posts < MaxPosts
    /\ \E status \in StatusValues, dur \in Durations, now \in Times,
          redisOk \in BOOLEAN :
         LET r == CallStatus(callData, c, status, dur, now, redisOk)
         IN  /\ finalizeQ' = AddAll(finalizeQ, r.enqueued)
             /\ callData' = r.data
             /\ lastHook' = IF ~ observe THEN lastHook
                            ELSE [NoHook EXCEPT !.ep = "call-status", !.sid = c,
                                    !.miss = StateMiss(c), !.exc = ~ redisOk,
                                    !.status = status, !.duration = dur,
                                    !.enqueued = r.enqueued,
                                    !.payload = r.response]
    /\ posts' = posts + 1
    /\ UNCHANGED << decideVars, callTTL, leadTimestamp, pollVars, intakeQ, smsQ,
                    outVars, voiceVars, stateExpired, histVars >>

\* a post to call-start for any call sid
PostCallStart(c, observe) ==
    /\ c \in twilioCalls \cup {StraySid}
    /\ posts < MaxPosts
    /\ \E redisOk \in BOOLEAN :
         lastHook' = IF ~ observe THEN lastHook
                     ELSE [NoHook EXCEPT !.ep = "call-start", !.sid = c,
                             !.miss = StateMiss(c), !.exc = ~ redisOk,
                             !.twiml = CallStart(callData, c, redisOk)]
    /\ posts' = posts + 1
    /\ UNCHANGED << decideVars, callData, callTTL, leadTimestamp, pollVars,
                    queueVars, outVars, voiceVars, stateExpired, histVars >>

\* a post to answer/{question_id}: the gateway is stateless, so any question
\* id and any call sid can arrive at any time
PostAnswer(c, observe) ==
    /\ c \in twilioCalls \cup {StraySid}
    /\ posts < MaxPosts
    /\ \E q \in PostQuestionIds, speech \in SpeechTexts \cup {<< >>},
          conf \in Confidences, redisOk \in BOOLEAN :
         LET r == ProcessAnswer(callData, q, c, speech, conf, redisOk)
         IN  /\ callData' = r.data
             /\ lastHook' = IF ~ observe THEN lastHook
                            ELSE [NoHook EXCEPT !.ep = "answer", !.sid = c,
                                    !.miss = StateMiss(c), !.exc = r.exc,
                                    !.qid = q, !.speech = speech,
                                    !.confidence = conf,
                                    !.twiml = r.twiml]
    /\ posts' = posts + 1
    /\ UNCHANGED << decideVars, callTTL, leadTimestamp, pollVars, queueVars,
                    outVars, voiceVars, stateExpired, histVars >>

\* a post to question/{question_id} with any question id
PostQuestion(observe) ==
    /\ posts < MaxPosts
    /\ \E q \in PostQuestionIds :
         lastHook' = IF ~ observe THEN lastHook
                     ELSE [NoHook EXCEPT !.ep = "question", !.qid = q,
                             !.twiml = AskQuestion(q)]
    /\ posts' = posts + 1
    /\ UNCHANGED << decideVars, callData, callTTL, leadTimestamp, pollVars,
                    queueVars, outVars, voiceVars, stateExpired, histVars >>

NextPoll ==
    \/ \E m \in MsgIds : Poll(m)
    \/ \E m \in MsgIds : ExpireMarker(m)
    \/ \E m \in MsgIds : MarkUnread(m)

SpecPoll == InitPoll /\ [][NextPoll]_vars

\* two poller processes on the same mailbox and the same Redis
Pollers == {"p1", "p2"}

\* lines 39-55 of one pass of poller p: the dedup check and the parse.  A pass
\* that is skipped, fails or cannot parse ends here; one that goes on to line
\* 58 is held in inflight with what it has read.
PollerChecks(p, m) ==
    /\ m \in unseen
    /\ \A r \in inflight : r.poller # p
    /\ \E present \in Bodies, parseOk \in BOOLEAN, redisOk \in BOOLEAN,
          readOk \in BOOLEAN :
         LET r == PollEmail(m, processedEmail, unseen, present, parseOk, redisOk,
                            readOk, TRUE)
         IN  IF r.outcome = "queued"
             THEN /\ inflight' = inflight \cup
                        {[poller |-> p, email_id |-> m, present |-> present]}
                  /\ UNCHANGED << unseen, lastPoll >>
             ELSE /\ unseen' = r.mailbox
                  /\ lastPoll' = [email_id |-> m, outcome |-> r.outcome,
                                   present |-> present]
                  /\ UNCHANGED inflight
    /\ UNCHANGED << decideVars, callData, callTTL, leadTimestamp, processedEmail,
                    queueVars, outVars, flow, prompts, empties, enqueuedFor,
                    markerExpired, stateExpired, histVars, posts, lastHook >>

\* lines 57-70 of that pass: the mark, the read flag and the enqueue, made on
\* the strength of the check the pass did before
PollerMarksAndQueues(r) ==
    /\ r \in inflight
    /\ \E redisOk \in BOOLEAN, readOk \in BOOLEAN, delayOk \in BOOLEAN :
         LET res == PollEmail(r.email_id, processedEmail \ {r.email_id}, unseen,
                              r.present, TRUE, redisOk, readOk, delayOk)
         IN  /\ processedEmail' = processedEmail \cup res.markers
             /\ unseen' = res.mailbox
             /\ intakeQ' = IF res.queued = << >> THEN intakeQ
                           ELSE intakeQ (+) SetToBag({res.queued[1]})
             /\ enqueuedFor' = [enqueuedFor EXCEPT ![r.email_id] = @ + Len(res.queued)]
             /\ lastPoll' = [email_id |-> r.email_id, outcome |-> res.outcome,
                              present |-> r.present]
    /\ inflight' = inflight \ {r}
    /\ UNCHANGED << decideVars, callData, callTTL, leadTimestamp, finalizeQ, smsQ,
                    outVars, flow, prompts, empties, markerExpired, stateExpired,
                    histVars, posts, lastHook >>

NextPollers ==
    \/ \E p \in Pollers, m \in MsgIds : PollerChecks(p, m)
    \/ \E r \in inflight : PollerMarksAndQueues(r)

SpecPollers == InitPoll /\ [][NextPollers]_vars

Next ==
    \/ \E c \in AllSids : ExpireCallData(c)
    \/ RunProcessLead(AuditUp)
    \/ RunFinalizeLeadRecord(AuditUp)
    \/ RunSendFollowupSms(AuditUp)
    \/ \E c \in AllSids : PostCallStatus(c, FALSE)
    \/ \E c \in AllSids : PostAnswer(c, FALSE)

Spec == Init /\ [][Next]_vars

\* the webhook gateway on its own: the intake task, the expiry of call state
\* and direct posts to call-start, answer and call-status, each post observed
NextHooks ==
    \/ \E c \in AllSids : ExpireCallData(c)
    \/ RunProcessLead(AuditUp)
    \/ \E c \in AllSids : PostCallStatus(c, TRUE)
    \/ \E c \in AllSids : PostAnswer(c, TRUE)
    \/ \E c \in AllSids : PostCallStart(c, TRUE)
    \/ PostQuestion(TRUE)

SpecHooks == Init /\ [][NextHooks]_vars

-----------------------------------------------------------------------------
(* One voice call, driven by the provider through the webhook gateway      *)

pipeVars == << leadTimestamp, pollVars, queueVars, outVars, stateExpired,
               histVars, posts, lastHook >>

\* the provider has placed call CA1 for a queued lead and process_lead has
\* returned: the call state is complete, partial or missing
InitVoiceCall ==
    /\ InitDecide /\ InitVoice
    /\ finalizeQ = EmptyBag /\ smsQ = EmptyBag /\ intakeQ = EmptyBag
    /\ smsOut = EmptyBag /\ stateExpired = {} /\ posts = 0
    /\ lastHook = NoHook
    /\ verdictsFor = [c \in AllSids |-> 0]
    /\ followupsFor = [c \in AllSids |-> 0]
    /\ markerExpired = [m \in MsgIds |-> 0]
    /\ \E m \in MsgIds, now \in Times, done \in RedisOutcomes \ {0} :
         LET r == ProcessLead(LeadOf(m), [c \in AllSids |-> EmptyHash],
                              [c \in AllSids |-> FALSE], now, "CA1", TRUE, TRUE, done)
         IN  /\ callData = r.data
             /\ callTTL = r.ttl
             /\ twilioCalls = {r.placed}
             /\ airtable = r.crm
             /\ activity = AddAll(EmptyBag, r.audit)
             /\ leadTimestamp = (LeadOf(m).phone :> LeadOf(m).email_received_at)
             /\ lastTask = [NoTask EXCEPT !.task = "process_lead", !.key = r.placed,
                              !.exc = r.exc, !.ret = r.ret,
                              !.attempts = r.attempts,
                              !.stored = FullCallState(r.data, r.placed),
                              !.audited = r.audit # << >>]
             /\ processedEmail = {m}
             /\ unseen = MsgIds \ {m}
             /\ enqueuedFor = [x \in MsgIds |-> IF x = m THEN 1 ELSE 0]
             /\ lastPoll = [email_id |-> m, outcome |-> "queued",
                             present |-> FormFields]

CallStartUrl == Url("call-start", "", NoRetry, FALSE)

\* the callee picks up: the provider requests the call's `url`
TwilioCallAnswered(c) ==
    /\ c \in twilioCalls
    /\ flow[c].st = "idle"
    /\ flow' = [flow EXCEPT ![c] = [st |-> "request",
                                    req |-> Request(CallStartUrl, << >>),
                                    doc |-> << >>]]
    /\ UNCHANGED << decideVars, callData, callTTL, pipeVars, prompts, empties, inflight >>

\* POST /webhooks/twilio/call-start
WebCallStart(c) ==
    /\ flow[c].st = "request"
    /\ flow[c].req.url.ep = "call-start"
    /\ \E redisOk \in BOOLEAN :
         flow' = [flow EXCEPT ![c].st = "document",
                              ![c].doc = CallStart(callData, c, redisOk)]
    /\ UNCHANGED << decideVars, callData, callTTL, pipeVars, prompts, empties, inflight >>

\* POST /webhooks/twilio/question/{question_id}
WebAskQuestion(c) ==
    /\ flow[c].st = "request"
    /\ flow[c].req.url.ep = "question"
    /\ flow' = [flow EXCEPT ![c].st = "document",
                            ![c].doc = AskQuestion(flow[c].req.url.qid)]
    /\ UNCHANGED << decideVars, callData, callTTL, pipeVars, prompts, empties, inflight >>

\* POST /webhooks/twilio/answer/{question_id}
WebProcessAnswer(c) ==
    /\ flow[c].st = "request"
    /\ flow[c].req.url.ep = "answer"
    /\ \E conf \in Confidences, redisOk \in BOOLEAN :
         LET r == ProcessAnswer(callData, flow[c].req.url.qid, c,
                                flow[c].req.speech, conf, redisOk)
         IN  /\ callData' = r.data
             /\ flow' = [flow EXCEPT ![c].st = "document", ![c].doc = r.twiml]
    /\ UNCHANGED << decideVars, callTTL, pipeVars, prompts, empties, inflight >>

\* the provider runs the document it was given.  A <Gather> plays its prompt
\* and captures speech (<< >>: nothing was said before the timeout).
TwilioExecute(c) ==
    /\ flow[c].st = "document"
    /\ LET doc == flow[c].doc
           q   == GatherOf(doc)
       IN  \E speech \in (IF q = "" THEN {<< >>} ELSE SpeechTexts \cup {<< >>}) :
             LET next == RunTwiml(doc, speech)
                 sofar == IF empties[c].q = q THEN empties[c].n ELSE 0
             IN  /\ q # "" => prompts[c][q] < MaxPrompts
                 /\ flow' = [flow EXCEPT ![c] =
                               [st  |-> IF next = NoRequest THEN "ended" ELSE "request",
                                req |-> next,
                                doc |-> doc]]
                 /\ prompts' = IF q = "" THEN prompts
                               ELSE [prompts EXCEPT ![c][q] = @ + 1]
                 /\ empties' = IF q = "" THEN empties
                               ELSE [empties EXCEPT ![c] =
                                       [q |-> q,
                                        n |-> IF speech = << >> THEN sofar + 1 ELSE 0]]
    /\ UNCHANGED << decideVars, callData, callTTL, pipeVars, inflight >>

NextVoice ==
    \/ \E c \in AllSids : TwilioCallAnswered(c)
    \/ \E c \in AllSids : WebCallStart(c)
    \/ \E c \in AllSids : WebAskQuestion(c)
    \/ \E c \in AllSids : WebProcessAnswer(c)
    \/ \E c \in AllSids : TwilioExecute(c)

SpecVoice == InitVoiceCall /\ [][NextVoice]_vars

-----------------------------------------------------------------------------
(* Answer webhooks of one call served concurrently                         *)

\* the most recent write position among the requests served so far
LastWrite == IF inflight = {} THEN 0
             ELSE CHOOSE n \in {r.at : r \in inflight} :
                      \A r \in inflight : r.at <= n

\* the path parameter is any string: q1, the unknown q9, and the name of a
\* field the intake task stores
ArrivingQuestionIds == PostQuestionIds \cup {"phone"}

\* a POST to answer/{question_id} reaches the gateway; its handler has not run
\* yet (at = 0).  seq is the order of arrival.
AnswerArrives(c) ==
    /\ c \in twilioCalls
    /\ posts < MaxPosts
    /\ \E q \in ArrivingQuestionIds, speech \in SpeechTexts :
         inflight' = inflight \cup
             {[sid |-> c, qid |-> q, speech |-> speech, seq |-> posts + 1,
               at |-> 0, ok |-> FALSE]}
    /\ posts' = posts + 1
    /\ UNCHANGED << decideVars, callData, callTTL, leadTimestamp, pollVars,
                    queueVars, outVars, flow, prompts, empties, stateExpired,
                    histVars, lastHook >>

\* the handler of an accepted request runs: its HSET reaches the store
AnswerServed(r) ==
    /\ r \in inflight /\ r.at = 0
    /\ \E conf \in Confidences, redisOk \in BOOLEAN :
         LET res == ProcessAnswer(callData, r.qid, r.sid, r.speech, conf, redisOk)
         IN  /\ callData' = res.data
             /\ inflight' = (inflight \ {r}) \cup
                    {[r EXCEPT !.at = LastWrite + 1, !.ok = ~ res.exc]}
    /\ UNCHANGED << decideVars, callTTL, leadTimestamp, pollVars, queueVars,
                    outVars, flow, prompts, empties, stateExpired, histVars,
                    posts, lastHook >>

NextAnswers ==
    \/ \E c \in AllSids : AnswerArrives(c)
    \/ \E r \in inflight : AnswerServed(r)

SpecAnswers == InitVoiceCall /\ [][NextAnswers]_vars

-----------------------------------------------------------------------------
(* The intake task interleaved with the provider's callbacks               *)

\* process_lead up to the return of initiate_call (lines 31-45): the lead
\* timestamp is stored and the provider has the call, which it may answer and
\* report on from now on; the call state is not written yet
IntakePlacesCall ==
    \E lead \in BagToSet(intakeQ), now \in Times, sid \in CallSids \ twilioCalls,
       done \in RedisOutcomes \ {0} :
      /\ intakeQ' = intakeQ (-) SetToBag({lead})
      /\ leadTimestamp' = (lead.phone :> lead.email_received_at) @@ leadTimestamp
      /\ twilioCalls' = twilioCalls \cup {sid}
      /\ inflight' = inflight \cup
             {[lead |-> lead, now |-> now, sid |-> sid, done |-> done]}
      /\ UNCHANGED << decideVars, callData, callTTL, pollVars, finalizeQ, smsQ,
                      airtable, smsOut, activity, flow, prompts, empties,
                      stateExpired, histVars, posts, lastHook >>

\* the rest of that process_lead (lines 70-112): the audit row, then
\* store_call_data
IntakeStoresState(r) ==
    /\ r \in inflight
    /\ \E auditOk \in AuditUp :
         LET res == ProcessLead(r.lead, callData, callTTL, r.now, r.sid, TRUE,
                                auditOk, r.done)
         IN  /\ activity' = AddAll(activity, res.audit)
             /\ callData' = res.data
             /\ callTTL' = res.ttl
             /\ lastTask' = [NoTask EXCEPT !.task = "process_lead", !.key = res.placed,
                               !.exc = res.exc, !.ret = res.ret,
                               !.attempts = res.attempts,
                               !.stored = FullCallState(res.data, res.placed),
                               !.audited = res.audit # << >>]
    /\ inflight' = inflight \ {r}
    /\ UNCHANGED << decideVars, leadTimestamp, pollVars, queueVars, twilioCalls,
                    airtable, smsOut, flow, prompts, empties, stateExpired,
                    verdictsFor, followupsFor, posts, lastHook >>

NextIntake ==
    \/ RunProcessLead(AuditUp)
    \/ IntakePlacesCall
    \/ \E r \in inflight : IntakeStoresState(r)
    \/ RunFinalizeLeadRecord(AuditUp)
    \/ \E c \in AllSids : PostCallStart(c, TRUE)
    \/ \E c \in AllSids : PostCallStatus(c, TRUE)

SpecIntake == Init /\ [][NextIntake]_vars

-----------------------------------------------------------------------------
(* Intake and finalization with the provider's status and answer callbacks  *)

NextFinalize ==
    \/ RunProcessLead(AuditUp)
    \/ RunFinalizeLeadRecord(AuditUp)
    \/ \E c \in AllSids : PostCallStatus(c, FALSE)
    \/ \E c \in AllSids : PostAnswer(c, FALSE)

SpecFinalize == Init /\ [][NextFinalize]_vars

-----------------------------------------------------------------------------
(* The decision engine evaluated on its own                                *)


\* answers offered per question; Missing: the key is not in the map
Missing == << "<missing>" >>
AnswerChoices(q) ==
    CASE q = "q1" -> {Missing, << >>, Spoken.tenYears, Spoken.twoYears, Spoken.JustStarted,
                      Spoken.justStarted}
      [] q = "q2" -> {Missing, << >>, Spoken.fiveEmployees, Spoken.solo, Spoken.justMe}
      [] q = "q3" -> {Missing, << >>, Spoken.yes, Spoken.noClientsYet}
      [] q = "q4" -> {Missing, << >>, Spoken.twoThousand, Spoken.NotSure, Spoken.notSure}
      [] q = "q5" -> {Missing, << >>, Spoken.privateOffice, Spoken.zeroNone}

DecideStatuses == {Status.completed, Status.no_answer, Status.busy, Status.failed}

AnswerMap(choice) == [q \in {x \in Qs : choice[x] # Missing} |-> choice[q]]

InitDecideInputs ==
    /\ InitStores /\ InitPipeline /\ InitVoice
    /\ unseen = MsgIds /\ intakeQ = EmptyBag
    /\ enqueuedFor = [m \in MsgIds |-> 0]
    /\ markerExpired = [m \in MsgIds |-> 0]
    /\ lastPoll = NoPoll
    /\ d_pc = "input"
    /\ \E a1 \in AnswerChoices("q1"), a2 \in AnswerChoices("q2"),
          a3 \in AnswerChoices("q3"), a4 \in AnswerChoices("q4"),
          a5 \in AnswerChoices("q5") :
         d_answers = AnswerMap([q \in Qs |->
             CASE q = "q1" -> a1 [] q = "q2" -> a2 [] q = "q3" -> a3
               [] q = "q4" -> a4 [] q = "q5" -> a5])
    /\ d_status \in DecideStatuses
    /\ d_result = NoResult

Decide ==
    /\ d_pc = "input"
    /\ d_result' = DetermineQualification(d_answers, d_status)
    /\ d_pc' = "done"
    /\ UNCHANGED << d_answers, d_status, callData, callTTL, pipeVars, voiceVars >>

SpecDecide == InitDecideInputs /\ [][Decide]_vars

-----------------------------------------------------------------------------
(* The decision engine evaluated again while the store and the queues move  *)

InitRedecide ==
    /\ InitStores /\ InitPipeline /\ InitVoice
    /\ unseen = MsgIds /\ intakeQ = EmptyBag
    /\ enqueuedFor = [m \in MsgIds |-> 0]
    /\ markerExpired = [m \in MsgIds |-> 0]
    /\ lastPoll = NoPoll
    /\ d_pc = "input"
    /\ \E a1 \in {Missing, Spoken.justStarted}, a2 \in {Missing, << >>, Spoken.solo},
          a3 \in {Spoken.yes, Spoken.noClientsYet} :
         d_answers = AnswerMap([q \in Qs |->
             CASE q = "q1" -> a1 [] q = "q2" -> a2 [] q = "q3" -> a3
               [] OTHER -> Missing])
    /\ d_status \in {Status.completed, Status.no_answer}
    /\ d_result = NoResult

\* a second call of _determine_qualification with the arguments of the first
Redecide ==
    /\ d_pc \in {"done", "again"}
    /\ d_result' = DetermineQualification(d_answers, d_status)
    /\ d_pc' = "again"
    /\ UNCHANGED << d_answers, d_status, callData, callTTL, pipeVars, voiceVars >>

NextRedecide ==
    \/ Decide
    \/ Redecide
    \/ \E c \in AllSids : PostCallStatus(c, FALSE)
    \/ \E c \in AllSids : PostAnswer(c, FALSE)

SpecRedecide == InitRedecide /\ [][NextRedecide]_vars

-----------------------------------------------------------------------------
(* Properties                                                              *)

RetryUrl(q) == Url("question", q, DefaultRetryCount + 1, FALSE)

\* C1: after two consecutive empty captures on question Qn the flow has left
\* Qn: the provider's next request is not question/Qn again (it is the skip
\* path, which leads to Qn+1 or, for q5, to the closing hangup).
C1_TwoEmptyCapturesAdvance ==
    \A c \in AllSids :
        (flow[c].st = "request" /\ empties[c].n >= 2)
            => ~ (flow[c].req.url.ep = "question"
                  /\ flow[c].req.url.qid = empties[c].q)

\* C2: every question is prompted at most twice in a call, whatever the
\* callee says or does not say (so the flow reaches the hangup after a bounded
\* number of prompts).
C2_AtMostTwoPromptsPerQuestion ==
    \A c \in AllSids : \A q \in Qs : prompts[c][q] <= 2

\* C3: after exactly one empty capture on question Qn the next response is a
\* re-prompt of Qn: the provider is redirected to question/Qn with retry=1,
\* the call has not ended and the document that follows gathers for Qn again.
C3_OneEmptyCaptureRetries ==
    \A c \in AllSids :
        empties[c].n = 1 =>
            /\ flow[c].st # "ended"
            /\ flow[c].st = "request" =>
                   flow[c].req = Request(RetryUrl(empties[c].q), << >>)
            /\ flow[c].st = "document" => GatherOf(flow[c].doc) = empties[c].q

C3_Witness ==
    \E c \in AllSids :
        /\ empties[c].n = 1
        /\ flow[c].st = "request"
        /\ prompts[c][empties[c].q] = 1

CrmRecordsFor(c) ==
    Cardinality({i \in 1..Len(airtable) : airtable[i].call_sid = c})

\* C4: finalization is idempotent per call id: however many 'completed'
\* callbacks arrive for a call, one verdict is produced, at most one CRM
\* record is created and at most one follow-up is enqueued for it.
C4_FinalizationIdempotent ==
    \A c \in AllSids :
        /\ verdictsFor[c] <= 1
        /\ CrmRecordsFor(c) <= 1
        /\ followupsFor[c] <= 1

\* C5: while its dedup marker has not aged out, a message id for which the
\* poller called mark is reported as marked, and the poller has enqueued the
\* intake task for it at most once, however often it saw the message.
C5_DedupAtMostOnce ==
    \A m \in MsgIds :
        markerExpired[m] = 0 =>
            /\ enqueuedFor[m] <= 1
            /\ enqueuedFor[m] = 1 => IsEmailProcessed(processedEmail, m)
            /\ (lastPoll.email_id = m /\ lastPoll.outcome = "queued")
                   => IsEmailProcessed(processedEmail, m)

\* the poller saw an already queued message again and skipped it
C5_Witness ==
    /\ lastPoll.outcome = "skipped"
    /\ enqueuedFor[lastPoll.email_id] = 1
    /\ markerExpired[lastPoll.email_id] = 0


\* the red-flag categories an answers map matches
Flagged(answers) ==
    {q \in {"q1", "q2", "q3", "q4"} :
        AnyIn(Lower(Get(answers, q, << >>)), KW_Q[q])}

R_NotesPrefix == <<"Q", "u", "a", "l", "i", "f", "i", "e", "d", " ", "w", "i", "t", "h", " ", "n", "o", "t", "e", "s">>

Evaluated == d_pc = "done"
SomeAnswer == \E q \in DOMAIN d_answers : d_answers[q] # << >>

\* C6: threshold law, for status 'completed' and at least one non-empty answer:
\* 3 or more matched categories give unqualified with every matched reason in
\* the reason text; 1 or 2 give qualified with a reason that starts with
\* "Qualified with notes"; 0 give qualified with the fixed strong-fit reason.
C6_ThresholdLaw ==
    (Evaluated /\ d_status = Status.completed /\ SomeAnswer) =>
        LET n == Cardinality(Flagged(d_answers))
        IN  /\ n >= 3 =>
                /\ d_result.status = UNQUALIFIED
                /\ \A q \in Flagged(d_answers) : Contains(d_result.reason, R_Q[q])
                /\ ~ StartsWith(d_result.reason, R_NotesPrefix)
            /\ n \in {1, 2} =>
                /\ d_result.status = QUALIFIED
                /\ StartsWith(d_result.reason, R_NotesPrefix)
            /\ n = 0 =>
                /\ d_result.status = QUALIFIED
                /\ d_result.reason = Reason.strong

C6_Witness ==
    /\ Evaluated /\ d_status = Status.completed
    /\ Cardinality(Flagged(d_answers)) = 3
    /\ d_result.status = UNQUALIFIED

ScenarioB ==
    [q \in {"q1", "q2", "q3", "q4"} |->
        CASE q = "q1" -> Spoken.tenYears [] q = "q2" -> Spoken.fiveEmployees
          [] q = "q3" -> Spoken.yes     [] q = "q4" -> Spoken.twoThousand]

\* C7: Scenario B (q1 "10 years", q2 "5 employees", q3 "yes", q4 "$2000/mo",
\* status completed) matches no red flag and is qualified with the strong-fit
\* reason.
C7_ScenarioB ==
    (Evaluated /\ d_status = Status.completed /\ d_answers = ScenarioB) =>
        /\ Flagged(d_answers) = {}
        /\ d_result = [status |-> QUALIFIED, reason |-> Reason.strong]

\* C8: for every call status other than 'completed' the verdict is no_answer,
\* whatever the answers, and the reason contains the status text.
C8_NotCompletedIsNoAnswer ==
    (Evaluated /\ d_status # Status.completed) =>
        /\ d_result.status = NO_ANSWER
        /\ Contains(d_result.reason, d_status)

C8_Witness ==
    /\ Evaluated /\ d_status = Status.no_answer
    /\ Cardinality(Flagged(d_answers)) >= 3
    /\ d_result.status = NO_ANSWER

FinalizeRan == lastTask.task = "finalize_lead_record"

\* C9: a CRM create that returns None never blocks the follow-up: the
\* finalization that found call state and got None from the CRM has enqueued
\* the follow-up and returned True; and for every queued finalization the
\* follow-up it enqueues (and its qualified flag) and its return value are the
\* same whether the CRM create succeeds or not.
C9_CrmFailureDoesNotBlockFollowup ==
    /\ (FinalizeRan /\ lastTask.found /\ lastTask.crmCalled /\ ~ lastTask.crmSaved)
           => (lastTask.smsEnqueued /\ lastTask.ret = "True" /\ ~ lastTask.exc)
    /\ \A t \in BagToSet(finalizeQ) : \A redisOk \in BOOLEAN :
           LET ok   == FinalizeLeadRecord(callData, t.call_sid, t.call_status,
                                          t.call_duration, redisOk, TRUE, TRUE)
               fail == FinalizeLeadRecord(callData, t.call_sid, t.call_status,
                                          t.call_duration, redisOk, FALSE, TRUE)
           IN  ok.sms = fail.sms /\ ok.ret = fail.ret /\ ok.exc = fail.exc

C9_Witness ==
    /\ FinalizeRan /\ lastTask.found
    /\ lastTask.crmCalled /\ ~ lastTask.crmSaved
    /\ lastTask.smsEnqueued /\ lastTask.qualified

\* C10: state-miss safety: for an unknown or expired call id, get returns
\* absent, and the finalization task run on it returns False without a CRM
\* write and without enqueuing a follow-up.
C10_StateMissSafety ==
    \A c \in AllSids :
        /\ StateMiss(c) => ~ HasCallData(callData, c)
        /\ (FinalizeRan /\ lastTask.key = c /\ lastTask.miss) =>
               /\ lastTask.ret = "False"
               /\ ~ lastTask.crmCalled
               /\ ~ lastTask.smsEnqueued

IntakeRan == lastTask.task = "process_lead"

\* C11: when the call placement fails, the intake task has made exactly one
\* call attempt, has asked the CRM to create a record whose verdict is
\* call_failed and which carries the speed-to-lead, and has returned the
\* sentinel "CALL_FAILED".
C11_CallFailureIsRecorded ==
    (IntakeRan /\ lastTask.attempts >= 1 /\ lastTask.key = "") =>
        /\ lastTask.attempts = 1
        /\ lastTask.ret = "CALL_FAILED"
        /\ lastTask.crmCalled
        /\ lastTask.crmSaved =>
               /\ airtable[Len(airtable)].qualification_status = CALL_FAILED
               /\ airtable[Len(airtable)].speed_to_lead_seconds \in Int

\* C12: whenever the provider returned a call id, the intake task has written
\* the full call state under that id and has returned the id.
C12_PlacedCallHasCallState ==
    (IntakeRan /\ lastTask.key # "") =>
        /\ lastTask.ret = lastTask.key
        /\ lastTask.stored

\* C13: every run of the intake task ends with a placed call whose call state
\* is stored, or with a CRM create of a call_failed record attempted.
C13_NoLeadDisappears ==
    IntakeRan =>
        \/ lastTask.key # "" /\ lastTask.stored
        \/ lastTask.crmCalled

StatusPosted == lastHook.ep = "call-status"

C15_CallStateHasTtl ==
    \A c \in AllSids : KeyExists(callData, c) => callTTL[c]

\* a response the provider can execute: known verbs only, ending in a redirect
\* or a hangup
ValidTwiml(doc) ==
    /\ Len(doc) > 0
    /\ \A i \in 1..Len(doc) : doc[i].verb \in {"Say", "Gather", "Redirect", "Hangup"}
    /\ doc[Len(doc)].verb \in {"Redirect", "Hangup"}

\* C16: the call-start, question and answer webhooks answer every request with
\* TwiML; an exception inside a handler, and a call-start for an unknown or
\* expired call id, are answered with the generic error response, which ends
\* in a hangup.
C16_VoiceFailuresResolveToTwiml ==
    /\ EndsInHangup(TwimlError)
    /\ \A q \in Qs \cup PostQuestionIds : ValidTwiml(AskQuestion(q))
    /\ lastHook.ep \in {"call-start", "answer"} =>
         /\ ValidTwiml(lastHook.twiml)
         /\ lastHook.exc => lastHook.twiml = TwimlError
         /\ (lastHook.ep = "call-start" /\ lastHook.miss) =>
                lastHook.twiml = TwimlError

\* C17: a source message whose parsed record lacks one of the required
\* fields (first name, email, phone, interest category) is rejected at the
\* boundary: the poller has enqueued no intake task for it.
C17_MissingRequiredFieldRejected ==
    (lastPoll.outcome = "queued" /\ enqueuedFor[lastPoll.email_id] >= 1) =>
        FormFields \subseteq lastPoll.present

TaskRan == lastTask.task # "none"

\* C18: an exception raised inside a pipeline task is caught at the task
\* boundary: the task has ended with a failure result and has reported the
\* failure to the audit sink.
C18_TaskFailuresAreAudited ==
    (TaskRan /\ lastTask.exc) =>
        /\ lastTask.ret \in {"ERROR", "False"}
        /\ lastTask.audited

\* C19: with status 'completed', decide returns no_answer with the reason
\* "No answers recorded" when all of q1..q5 are empty, and never returns
\* no_answer when at least one answer is non-empty.
C19_NoAnswersRecorded ==
    (Evaluated /\ d_status = Status.completed) =>
        /\ ~ SomeAnswer =>
               d_result = [status |-> NO_ANSWER, reason |-> Reason.noAnswers]
        /\ SomeAnswer => d_result.status # NO_ANSWER

C19_Witness ==
    /\ Evaluated /\ d_status = Status.completed
    /\ DOMAIN d_answers = Qs
    /\ \A q \in Qs : d_answers[q] = << >>
    /\ d_result.status = NO_ANSWER

ScenarioA ==
    [q \in {"q1", "q2", "q3", "q4"} |->
        CASE q = "q1" -> Spoken.justStarted [] q = "q2" -> Spoken.solo
          [] q = "q3" -> Spoken.noClientsYet     [] q = "q4" -> Spoken.notSure]

ScenarioC ==
    [q \in {"q1", "q2", "q3"} |->
        CASE q = "q1" -> Spoken.twoYears [] q = "q2" -> Spoken.justMe [] q = "q3" -> Spoken.yes]

\* C20: for a completed call with some answer, the reason of question q (q1..q4)
\* is in the result exactly when the lower-cased answer to q contains one of
\* q's keywords, each question counts at most once, and q5 contributes nothing;
\* Scenario A counts 4 flags and is unqualified, Scenario C counts 1 flag and is
\* qualified with notes.
C20_RedFlagMatching ==
    (Evaluated /\ d_status = Status.completed /\ SomeAnswer) =>
        /\ \A q \in {"q1", "q2", "q3", "q4"} :
               Contains(d_result.reason, R_Q[q]) <=> q \in Flagged(d_answers)
        /\ Len(RedFlagReasons(d_answers)) = Cardinality(Flagged(d_answers))
        /\ d_answers = ScenarioA =>
               /\ Cardinality(Flagged(d_answers)) = 4
               /\ d_result.status = UNQUALIFIED
        /\ d_answers = ScenarioC =>
               /\ Flagged(d_answers) = {"q2"}
               /\ d_result.status = QUALIFIED
               /\ StartsWith(d_result.reason, R_NotesPrefix)

\* q5 names keywords of q2 and q3, and no other answer matches
C20_Witness ==
    /\ Evaluated /\ d_status = Status.completed
    /\ "q5" \in DOMAIN d_answers /\ d_answers["q5"] = Spoken.zeroNone
    /\ Flagged(d_answers) = {}
    /\ d_result = [status |-> QUALIFIED, reason |-> Reason.strong]

C22_SpeedToLead ==
    /\ \A c \in AllSids :
          "speed_to_lead_seconds" \in DOMAIN callData[c] =>
              LET d == callData[c]
                  initiated == FromIsoFormat(d["call_initiated_at"])
                  received  == FromIsoFormat(d["email_received_at"])
              IN  /\ IsFloatStr(d["speed_to_lead_seconds"])
                  /\ ParseFloat(d["speed_to_lead_seconds"]) =
                         initiated.secs - received.secs
                  /\ received.secs <= initiated.secs =>
                         ParseFloat(d["speed_to_lead_seconds"]) >= 0
    /\ \A i \in 1..Len(airtable) :
          LET c == airtable[i].call_sid
          IN  (c \in AllSids /\ "speed_to_lead_seconds" \in DOMAIN callData[c]) =>
                  airtable[i].speed_to_lead_seconds =
                      ParseFloat(callData[c]["speed_to_lead_seconds"])

\* a lead called one second after it was received, and finalized
C22_Witness ==
    \E i \in 1..Len(airtable) :
        LET c == airtable[i].call_sid
        IN  /\ c \in CallSids
            /\ "speed_to_lead_seconds" \in DOMAIN callData[c]
            /\ callData[c]["speed_to_lead_seconds"] = << "1", ".", "0" >>
            /\ airtable[i].speed_to_lead_seconds = 1

SmsRan == lastTask.task = "send_followup_sms"

\* C23: every execution of the follow-up task has handed exactly one message
\* to the messaging provider, built from the qualified template when its flag
\* is true and from the not-qualified template otherwise; when the send failed
\* the task returned False, its audit row says "failed", and the task is not
\* queued again: sends made plus follow-ups waiting equal follow-ups enqueued.
C23_FollowupSendsOnce ==
    LET Total[X \in SUBSET AllSids] ==
            IF X = {} THEN 0
            ELSE LET c == CHOOSE c \in X : TRUE
                 IN  followupsFor[c] + Total[X \ {c}]
    IN  /\ BagCardinality(smsOut) + BagCardinality(smsQ) = Total[AllSids]
        /\ SmsRan =>
              /\ ~ lastTask.exc
              /\ \E m \in BagToSet(smsOut) :
                    /\ m.template = (IF lastTask.qualified THEN "qualified"
                                                            ELSE "not_qualified")
                    /\ m.delivered = (lastTask.ret = "True")
              /\ (lastTask.ret = "False" /\ lastTask.audited) =>
                    \E row \in BagToSet(activity) :
                        row.activity_type = "sms_sent" /\ row.status = "failed"

\* a not-qualified follow-up whose send failed
C23_Witness ==
    /\ SmsRan /\ ~ lastTask.qualified /\ lastTask.ret = "False"
    /\ \E m \in BagToSet(smsOut) : m.template = "not_qualified" /\ ~ m.delivered
    /\ \E row \in BagToSet(activity) :
          row.activity_type = "sms_sent" /\ row.status = "failed"
    /\ smsQ = EmptyBag

\* the response is a message followed by a hangup and nothing else
ClosingDoc(doc) ==
    /\ Len(doc) = 2
    /\ doc[1].verb = "Say" /\ doc[2].verb = "Hangup"

\* C24: the answer webhook for q1..q4 answers with a redirect to the next
\* question and nothing else, and for q5 with the closing message and a hangup
\* (a handler that raised answers with the error response instead, which hangs
\* up); a request for a question follows call-start with q1, the same question
\* again, or the answer to the question just before it: the questions are
\* visited in the order q1, q2, q3, q4, q5.
C24_TransitionTable ==
    [][LET order == << "q1", "q2", "q3", "q4", "q5" >>
           Pos(q) == CHOOSE i \in 1..5 : order[i] = q
           Table(q) ==
               IF Pos(q) < 5
               THEN << Redirect(Url("question", order[Pos(q) + 1], NoRetry, FALSE)) >>
               ELSE << Say("Thank you for answering my questions."), Hangup >>
       IN  \A c \in AllSids :
             /\ (flow'[c].st = "document" /\ flow'[c].req.url.ep = "answer") =>
                   /\ flow'[c].req.url.qid \in Qs
                   /\ flow'[c].doc \in {Table(flow'[c].req.url.qid), TwimlError}
                   /\ flow'[c].req.url.qid = "q5" => ClosingDoc(flow'[c].doc)
             /\ (flow'[c].req # flow[c].req /\ flow'[c].req.url.ep = "question") =>
                   LET old == flow[c].req.url
                       new == flow'[c].req.url.qid
                   IN  \/ old.ep = "call-start" /\ new = "q1"
                       \/ old.ep = "question" /\ new = old.qid
                       \/ /\ old.ep = "answer" /\ Pos(old.qid) < 5
                          /\ new = order[Pos(old.qid) + 1]]_vars

\* the answer to q5 was stored and answered with the closing message
C24_Witness ==
    \E c \in CallSids :
        /\ flow[c].st = "document" /\ flow[c].req.url.ep = "answer"
        /\ flow[c].req.url.qid = "q5"
        /\ ClosingDoc(flow[c].doc) /\ flow[c].doc # TwimlError
        /\ \A q \in Qs : prompts[c][q] >= 1

AnswerPosted == lastHook.ep = "answer"

\* C25: an answer webhook that carries captured text has stored that text as
\* the answer of its question id under its call id and has answered with the
\* step to the next question, whatever the confidence; one that carries no
\* text has changed nothing in the store and has answered with the same step.
\* (A handler whose Redis write raised changes nothing and answers with the
\* error response.)
C25_AnswerPersistedAndAdvances ==
    [][(posts' # posts /\ lastHook'.ep = "answer") =>
          LET h == lastHook'
              step == IF h.qid = "q1"
                      THEN << Redirect(Url("question", "q2", NoRetry, FALSE)) >>
                      ELSE << Say("Thank you for answering my questions."), Hangup >>
          IN  /\ ~ h.exc => h.twiml = step
              /\ (h.speech # << >> /\ ~ h.exc) =>
                    /\ AnswerField(h.qid) \in DOMAIN callData'[h.sid]
                    /\ callData'[h.sid][AnswerField(h.qid)] = h.speech
              /\ (h.speech = << >> \/ h.exc) => callData' = callData
              /\ h.speech = << >> => ~ h.exc]_vars

\* captured text with confidence 0 was stored and the flow moved on to q2
C25_Witness ==
    /\ AnswerPosted /\ lastHook.sid \in CallSids /\ ~ lastHook.miss
    /\ lastHook.qid = "q1" /\ lastHook.speech = Spoken.zeroNone
    /\ lastHook.confidence = << 0 >> /\ ~ lastHook.exc
    /\ "answer_q1" \in DOMAIN callData[lastHook.sid]
    /\ callData[lastHook.sid]["answer_q1"] = Spoken.zeroNone
    /\ lastHook.twiml = << Redirect(Url("question", "q2", NoRetry, FALSE)) >>

\* C26: for a question id outside q1..q5 the question webhook and the answer
\* webhook have answered with a message followed by a hangup, with no speech
\* capture and no redirect.
C26_UnknownQuestionTerminates ==
    (lastHook.ep \in {"question", "answer"} /\ lastHook.qid \notin Qs) =>
        /\ ClosingDoc(lastHook.twiml)
        /\ \A i \in 1..Len(lastHook.twiml) :
              lastHook.twiml[i].verb \notin {"Gather", "Redirect"}

\* an answer for the unknown question q9, with captured text
C26_Witness ==
    /\ AnswerPosted /\ lastHook.qid = "q9" /\ lastHook.speech # << >>
    /\ ~ lastHook.exc
    /\ lastHook.twiml = << Say("Thank you for answering my questions."), Hangup >>

\* C27: every finalization that found call state has produced a verdict,
\* attempted the CRM write, enqueued one follow-up and emitted its audit row;
\* the follow-up's qualified flag is true exactly when the verdict is
\* "qualified".
C27_FinalizationOrdering ==
    (FinalizeRan /\ lastTask.found) =>
        /\ lastTask.crmCalled
        /\ lastTask.smsEnqueued
        /\ lastTask.audited
        /\ lastTask.crmSaved =>
              (lastTask.qualified <=>
                  airtable[Len(airtable)].qualification_status = QUALIFIED)

\* C28: the write an answer webhook makes through update_call_answer changes
\* the answer field of its question id in the record of its call id and
\* nothing else: every other field of that record, every other call's record
\* and every expiry stay as they were.
C28_SetAnswerIsSingleFieldMerge ==
    [][(posts' # posts /\ lastHook'.ep = "answer") =>
          LET h == lastHook'
              f == AnswerField(h.qid)
          IN  /\ \A c \in AllSids \ {h.sid} : callData'[c] = callData[c]
              /\ DOMAIN callData'[h.sid] \subseteq DOMAIN callData[h.sid] \cup {f}
              /\ \A g \in DOMAIN callData[h.sid] \ {f} :
                    /\ g \in DOMAIN callData'[h.sid]
                    /\ callData'[h.sid][g] = callData[h.sid][g]
              /\ callTTL' = callTTL]_vars

\* an answer merged into a complete call state while another record exists
C28_Witness ==
    /\ AnswerPosted /\ lastHook.sid \in CallSids /\ ~ lastHook.exc
    /\ lastHook.speech # << >>
    /\ FullCallState(callData, lastHook.sid)
    /\ AnswerField(lastHook.qid) \in DOMAIN callData[lastHook.sid]
    /\ callData[lastHook.sid][AnswerField(lastHook.qid)] = lastHook.speech
    /\ KeyExists(callData, StraySid)

\* the answer requests for question q of call c whose write reached the store
Written(c, q) ==
    {r \in inflight : r.sid = c /\ r.qid = q /\ r.at > 0 /\ r.ok}

\* C29: with answer webhooks of one call served in any order, every question
\* id that had a write reach the store has its answer field present (writes to
\* different question ids do not lose each other), and the field holds the text
\* of the write that reached the store last.
C29_ConcurrentAnswers ==
    \A c \in AllSids : \A q \in PostQuestionIds :
        Written(c, q) # {} =>
            LET last == CHOOSE r \in Written(c, q) :
                            \A x \in Written(c, q) : x.at <= r.at
            IN  /\ AnswerField(q) \in DOMAIN callData[c]
                /\ callData[c][AnswerField(q)] = last.speech

\* two requests for different questions were in flight together and were
\* written in the reverse of their order of arrival; both answers are stored
C29_Witness ==
    \E c \in CallSids : \E r1 \in Written(c, "q1"), r2 \in Written(c, "q9") :
        /\ r1.seq < r2.seq /\ r2.at < r1.at
        /\ callData[c]["answer_q1"] = r1.speech
        /\ callData[c]["answer_q9"] = r2.speech

\* C30: a finalization queued for a call whose call state is complete but
\* holds answers for only some of q1..q5, or for none, does not fail: it
\* produces the verdict of the answers with each missing one read as empty,
\* enqueues one follow-up and returns True.
C30_PartialAnswersAreValid ==
    \A t \in BagToSet(finalizeQ) :
        FullCallState(callData, t.call_sid) =>
            LET d == callData[t.call_sid]
                answers == [q \in Qs |->
                              IF AnswerField(q) \in DOMAIN d THEN d[AnswerField(q)]
                              ELSE << >>]
                r == FinalizeLeadRecord(callData, t.call_sid, t.call_status,
                                        t.call_duration, TRUE, TRUE, TRUE)
            IN  /\ ~ r.exc /\ r.ret
                /\ r.verdict = << DetermineQualification(answers, t.call_status) >>
                /\ Len(r.sms) = 1

\* the last finalization ran on a complete call state that holds an answer to
\* q1 and to no other question, and enqueued the follow-up
C30_Witness ==
    /\ FinalizeRan /\ lastTask.found /\ lastTask.ret = "True"
    /\ lastTask.smsEnqueued
    /\ lastTask.key \in CallSids
    /\ FullCallState(callData, lastTask.key)
    /\ "answer_q1" \in DOMAIN callData[lastTask.key]
    /\ \A q \in Qs \ {"q1"} : AnswerField(q) \notin DOMAIN callData[lastTask.key]


\* C31: every execution of the intake task (with the call placed, and with the
\* call placement failed), of the finalization task that found call state and
\* of the follow-up task has appended an audit row.
C31_EveryStageAudits ==
    (TaskRan /\ ~ lastTask.exc /\ (FinalizeRan => lastTask.found)) =>
        lastTask.audited


\* C32: a call-start request for a call the provider placed, whose call state
\* has not aged out and whose intake task has not failed, is never answered
\* with the error response: the call state is in the store before the provider
\* can ask for it.
C32_CallStateVisibleBeforeWebhooks ==
    [][(/\ posts' # posts /\ lastHook'.ep = "call-start"
        /\ ~ lastHook'.miss /\ ~ lastHook'.exc
        /\ ~ (IntakeRan /\ lastTask.exc))
           => lastHook'.twiml # TwimlError]_vars


\* C33: every call id whose record is present in the store was handed out to
\* the intake task, and its record holds the lead's name, email and phone and
\* both timestamps; an answer webhook for a call id without a record has not
\* created one.  (Records left behind by an intake task that failed part-way
\* through its store are set aside.)
C33_CallStateWellFormed ==
    \A c \in AllSids :
        (HasCallData(callData, c) /\ ~ (IntakeRan /\ lastTask.exc /\ lastTask.key = c)) =>
            /\ c \in twilioCalls
            /\ {"name", "email", "phone", "email_received_at", "call_initiated_at"}
                   \subseteq DOMAIN GetCallData(callData, c)


\* C34: every queued finalization carries the status 'completed', and a
\* call-status request with any other status enqueues nothing and changes
\* nothing; so every CRM record of a finalized call has the status 'completed',
\* its verdict is no_answer only with the reason "No answers recorded", and a
\* finalization gives no_answer only when the record holds no answer to any of
\* q1..q5.
C34_OnlyCompletedCallsAreFinalized ==
    /\ \A t \in BagToSet(finalizeQ) : t.call_status = Status.completed
    /\ \A c \in AllSids, s \in DecideStatuses \ {Status.completed} :
         LET r == CallStatus(callData, c, s, << "7" >>, 0, TRUE)
         IN  r.enqueued = << >> /\ r.data = callData
    /\ \A i \in 1..Len(airtable) :
         airtable[i].call_sid \in AllSids =>
            /\ airtable[i].call_status = Status.completed
            /\ airtable[i].qualification_status = NO_ANSWER =>
                  airtable[i].qualification_reason = Reason.noAnswers
    /\ \A t \in BagToSet(finalizeQ) :
         LET r == FinalizeLeadRecord(callData, t.call_sid, t.call_status,
                                     t.call_duration, TRUE, TRUE, TRUE)
         IN  (r.verdict # << >> /\ r.verdict[1].status = NO_ANSWER) =>
                \A q \in Qs :
                    Get(GetCallData(callData, t.call_sid), AnswerField(q), << >>) = << >>

\* a completed call without answers was finalized as no_answer, and nothing is
\* left in the queue after both posts
C34_Witness ==
    /\ FinalizeRan /\ lastTask.key \in CallSids /\ lastTask.crmSaved
    /\ airtable[Len(airtable)].call_status = Status.completed
    /\ airtable[Len(airtable)].qualification_status = NO_ANSWER
    /\ airtable[Len(airtable)].qualification_reason = Reason.noAnswers
    /\ posts = MaxPosts /\ finalizeQ = EmptyBag
    /\ verdictsFor[lastTask.key] = 1


\* C35: the decision engine, applied to the answers of a call that awaits its
\* finalization and to any call status, returns qualified, unqualified or
\* no_answer (unqualified for the answers of scenario A on a completed call); a CRM
\* record carries call_failed exactly when it is the one the intake task writes
\* for a failed call placement (it names no call id), and no CRM record carries
\* pending.
C35_VerdictRange ==
    /\ \A t \in BagToSet(finalizeQ) : \A s \in DecideStatuses :
         LET d == GetCallData(callData, t.call_sid)
             answers == [q \in Qs |-> Get(d, AnswerField(q), << >>)]
         IN  DetermineQualification(answers, s).status
                 \in {QUALIFIED, UNQUALIFIED, NO_ANSWER}
    /\ DetermineQualification(ScenarioA, Status.completed).status = UNQUALIFIED
    /\ \A i \in 1..Len(airtable) :
         /\ airtable[i].qualification_status \in LeadQualification \ {PENDING}
         /\ airtable[i].qualification_status = CALL_FAILED
                <=> airtable[i].call_sid = ""

\* the intake task recorded a failed call placement in the CRM
C35_Witness ==
    /\ IntakeRan /\ lastTask.ret = "CALL_FAILED" /\ lastTask.crmSaved
    /\ Len(airtable) = 1
    /\ airtable[1].qualification_status = CALL_FAILED
    /\ airtable[1].call_sid = ""


\* the fields of a call-state record that identify the lead and time the call
IdentityFields ==
    {"name", "email", "phone", "email_received_at", "call_initiated_at",
     "speed_to_lead_seconds"}

\* C36: an answer webhook, for a known or an unrecognized question id (also
\* one that is spelled like a field of the record) and any captured text,
\* leaves the lead's name, email and phone, both timestamps and the
\* speed-to-lead of every record as they were: none is changed, removed or
\* added.
C36_AnswerKeepsIdentityFields ==
    [][(inflight' # inflight /\ posts' = posts) =>
          \A c \in AllSids : \A f \in IdentityFields :
              /\ f \in DOMAIN callData'[c] <=> f \in DOMAIN callData[c]
              /\ f \in DOMAIN callData[c] => callData'[c][f] = callData[c][f]]_vars

\* an answer for the question id "phone" was stored next to the lead's phone
C36_Witness ==
    \E r \in inflight :
        /\ r.qid = "phone" /\ r.at > 0 /\ r.ok
        /\ FullCallState(callData, r.sid)
        /\ "answer_phone" \in DOMAIN callData[r.sid]
        /\ callData[r.sid]["answer_phone"] = r.speech
        /\ callData[r.sid]["phone"] \in {LeadOf(m).phone : m \in MsgIds}


\* C37: a message whose dedup marker is set has had its intake task enqueued:
\* the poller never leaves a marker behind without the task.
C37_NoLeadLostByMarker ==
    \A m \in MsgIds :
        IsEmailProcessed(processedEmail, m) => enqueuedFor[m] >= 1


\* C38: with two pollers on one mailbox and one dedup store, the intake task
\* is enqueued at most once for each message id.
C38_TwoPollersEnqueueOnce ==
    \A m \in MsgIds : enqueuedFor[m] <= 1


\* C39: an intake task whose call placement failed has written no call state
\* and set no expiry, has enqueued no finalization and no follow-up, has sent
\* nothing and audited nothing; it has stored the lead timestamp of its phone
\* number and has added at most one CRM record, a call_failed one, and when it
\* returned "CALL_FAILED" it had asked the CRM to create that record.
C39_FailedPlacementFrame ==
    [][(/\ intakeQ' # intakeQ /\ lastTask'.task = "process_lead"
        /\ lastTask'.key = "" /\ lastTask'.attempts = 1)
           => /\ callData' = callData /\ callTTL' = callTTL
              /\ finalizeQ' = finalizeQ /\ smsQ' = smsQ
              /\ twilioCalls' = twilioCalls
              /\ smsOut' = smsOut /\ activity' = activity
              /\ \E lead \in BagToSet(intakeQ) :
                    /\ intakeQ' = intakeQ (-) SetToBag({lead})
                    /\ leadTimestamp' =
                           (lead.phone :> lead.email_received_at) @@ leadTimestamp
                    /\ \/ airtable' = airtable
                       \/ /\ Len(airtable') = Len(airtable) + 1
                          /\ SubSeq(airtable', 1, Len(airtable)) = airtable
                          /\ airtable'[Len(airtable')].qualification_status = CALL_FAILED
                          /\ airtable'[Len(airtable')].phone = lead.phone
              /\ lastTask'.ret = "CALL_FAILED" =>
                    lastTask'.crmCalled /\ ~ lastTask'.exc]_vars

\* the call placement failed and so did the CRM create: the lead timestamp is
\* the task's only trace
C39_Witness ==
    /\ IntakeRan /\ lastTask.key = "" /\ lastTask.attempts = 1
    /\ lastTask.ret = "CALL_FAILED" /\ lastTask.crmCalled /\ ~ lastTask.crmSaved
    /\ airtable = << >> /\ activity = EmptyBag
    /\ leadTimestamp # EmptyHash
    /\ \A c \in AllSids : ~ KeyExists(callData, c)
    /\ finalizeQ = EmptyBag /\ smsQ = EmptyBag

=============================================================================
